---- MODULE Spec2Model ----
(***************************************************************************)
(* Model of the multimaster commit coordinator (commit.c: MtmBeginTrans-   *)
(* action, MtmTwoPhaseCommit, GatherPrepares, GatherPrecommits) as it runs *)
(* on one node of the cluster, together with the shared membership state   *)
(* (MtmStateShmemStartup), the commit barrier, the DMQ reply streams and   *)
(* the peers the coordinator talks to.                                     *)
(*                                                                         *)
(* Node masks (nodemask_t) are modelled as sets of node ids: bit i-1 of a  *)
(* mask is set iff node i is a member of the set.                          *)
(***************************************************************************)
EXTENDS Integers, FiniteSets, Sequences, TLC

\* ------------------------------------------------------------------ bounds

\* Number of configured nodes (Mtm->nAllNodes); the recovery test runs three.
NAllNodes == 3
\* Number of bits of a node mask that the model keeps (nodemask_t has 64).
MaskWidth == 4
\* Number of client backends that run transactions on this node.
NBackends == 1
\* Number of transaction ids the node hands out.
MaxXid == 1
\* Largest node id MtmGenerateGid is called with (MTM_MAX_NODES is larger).
GidMaxNode == 12
\* Number of processes that call MtmGetIncreasingTimestamp.
NClockProcs == 2
\* Largest value the real clock shows.
MaxClock == 3
\* Number of calls of MtmGetIncreasingTimestamp that are followed.
MaxClockCalls == 4
\* LWLocks a backend may hold at a time in the lock-discipline runs.
MaxHeld == 3
\* The largest node id, and the largest value of a setting, in the runs of
\* node creation.
MTM_MAX_NODES == 2
MaxSetting == 3
\* SET and RESET statements of a session.
MaxGucOps == 3
\* Statements between BEGIN and COMMIT.
MaxStmts == 3
\* Tasks an apply pool has active, and has pending.
MaxTasks == 1
\* Calls of MtmProcessUtility nested in one another.
MaxDepth == 2
\* Logical messages "D" and "E" a session logs.
MaxDdlLog == 4
\* Statements of one transaction ended by an ERROR.
MaxDdlErrors == 2

Nodes == 1..NAllNodes
MaskBits == 1..MaskWidth
Backends == 1..NBackends
Xids == 1..(MaxXid + 1)

\* ------------------------------------------------------------------ state

VARIABLES
    MtmNodeId,          \* this node's id (Mtm->my_node_id)
    status,             \* Mtm->status
    disabledNodeMask,   \* Mtm->disabledNodeMask
    stop_new_commits,   \* Mtm->stop_new_commits
    extension_created,  \* Mtm->extension_created
    barrierShared,      \* MtmCommitBarrier: shared holds of every backend
    barrierExcl,        \* MtmCommitBarrier: the peer whose walsender holds it exclusively, or 0
    mtmLock,            \* Mtm->locks[MTM_STATE_LOCK_ID]: shared holds a backend was left with
    wpc,                \* position of the starting walsender/apply worker of every peer
    pc,                 \* position of every backend in its transaction
    MtmTx,              \* MtmCurrentTrans of every backend
    exemptSession,      \* whether the statement of a user session passes the tests of lines 82-84
    loc,                \* locals of MtmTwoPhaseCommit and of the gather it is in
    streams,            \* DMQ streams every backend is subscribed to
    outcome,            \* what the last commit attempt of a backend reported to the host
    nextXid,            \* next transaction id of the host
    gxact,              \* state of every transaction in the local two-phase machinery
    connected,          \* whether the DMQ connection from a peer is attached
    replies,            \* DMQ: queued replies of every peer for every stream
    recvActive,         \* whether the peer's receiver streams from this node
    recvSeen,           \* what the peer's receiver has been streamed since it started
    peerTx,             \* state of every transaction on every peer
    votedPrecommitted,  \* history: transactions some peer replied PRECOMMITTED to
    windowDone,         \* history: peers whose receiver was installed through the barrier
    installedSince,     \* history: those of them not disabled again since
    rLink,              \* two-node cluster: whether the link between the nodes is up
    rStatus,            \* two-node cluster: Mtm->status of either node
    rPeerDisabled,      \* two-node cluster: whether a node has its peer in disabled_mask
    refereeGrant,       \* two-node cluster: Mtm->refereeGrant of either node
    refereeWinnerId,    \* two-node cluster: Mtm->refereeWinnerId of either node
    refWinner,          \* the referee's record: the node it granted to, or 0
    gidArgs,            \* MtmGenerateGid: the (node_id, xid) of two calls
    gidStr,             \* MtmGenerateGid: the strings the two calls wrote, once made
    gidBack,            \* MtmGidParseNodeId, MtmGidParseXid: what they return for the strings
    realClock,          \* GetCurrentTimestamp(): the real clock
    last_timestamp,     \* mtm_time->last_timestamp
    tsPc,               \* position of every process in MtmGetIncreasingTimestamp
    tsNow,              \* the local now of every process
    tsReturned,         \* the values returned, in the order the spinlock was taken
    dlState,            \* deadlock scenario: the fate of either transaction at its origin
    dlCopy,             \* deadlock scenario: the copy of either transaction on either node
    dlContrib,          \* deadlock scenario: the wait-for graph either node sent last
    dlVictims,          \* history: the transactions the detector chose as victim while they ran
    lkPc,               \* lock discipline: where the backend is in MtmTwoPhaseCommit
    lkStatus,           \* lock discipline: Mtm->status
    lkMtm,              \* lock discipline: how often the backend holds MtmLock
    lkBar,              \* lock discipline: how often the backend holds MtmCommitBarrier
    lkExempt,           \* lock discipline: the session is exempt from the online test
    cfgArgs,            \* node creation: the inserted row of mtm.nodes and the settings of the host
    cfgCalled,          \* node creation: mtm_after_node_create has run
    cfgRaised,          \* node creation: it ended with an ERROR
    cfgCreated,         \* node creation: the objects it created and the workers it started
    MtmGucList,         \* ddl.c: the list of GUC overrides, head first
    MtmGucHash,         \* ddl.c: whether the hash of GUC overrides exists
    gucRoleDiffers,     \* ddl.c: session_authorization differs from MtmDatabaseUser
    gucClock,           \* history: insertions into the list so far
    gucFirst,           \* history: when each present key entered the list
    gucLast,            \* history: when each present key was set last
    gucOut,             \* the SET commands MtmGucSerialize emitted for the list as it is
    sessPc,             \* session: idle or inside a transaction block
    sessTx,             \* session: MtmTx of ddl.c (isDistributed, containsDML)
    MyXactFlags,        \* session: XACT_FLAGS_ACCESSEDTEMPREL of the host
    sessStmts,          \* session: statements run in the block and what they touched
    sessCommit,         \* session: how the last block was committed
    xidCap,             \* number of transactions the sessions start in the run
    poolArgs,           \* the apply pools and my_node_id MtmAllApplyWorkersFinished is called with
    poolResult,         \* what MtmAllApplyWorkersFinished returned
    mtmNodes,           \* ids of the rows of mtm.nodes
    rcCfg,              \* the MtmConfig the caller of MtmReloadConfig keeps
    rcAdds,             \* calls of node_add_cb per node in the last reload
    rcDrops,            \* calls of node_drop_cb per node in the last reload
    rcNet,              \* calls of node_add_cb minus calls of node_drop_cb per node so far
    ddlXact,            \* DDL capture: "idle" or "active", the session's transaction
    MtmDDLStatement,    \* DDL capture: "NULL" or "stmt", the marker of ddl.c line 78
    ddlStack,           \* DDL capture: the calls of MtmProcessUtility in progress, their local executed
    ddlLog,             \* DDL capture: the logical messages "D" and "E" logged so far
    ddlFailed           \* DDL capture: statements of the transaction ended by an ERROR

vars == <<MtmNodeId, status, disabledNodeMask, stop_new_commits, extension_created,
          barrierShared, barrierExcl, mtmLock, wpc, pc, MtmTx, exemptSession, loc, streams,
          outcome, nextXid, gxact, connected, replies, recvActive, recvSeen, peerTx,
          votedPrecommitted, windowDone, installedSince,
          rLink, rStatus, rPeerDisabled, refereeGrant, refereeWinnerId, refWinner,
          gidArgs, gidStr, gidBack,
          realClock, last_timestamp, tsPc, tsNow, tsReturned,
          dlState, dlCopy, dlContrib, dlVictims,
          lkPc, lkStatus, lkMtm, lkBar, lkExempt,
          cfgArgs, cfgCalled, cfgRaised, cfgCreated,
          MtmGucList, MtmGucHash, gucRoleDiffers, gucClock, gucFirst, gucLast, gucOut,
          sessPc, sessTx, MyXactFlags, sessStmts, sessCommit,
          xidCap,
          poolArgs, poolResult,
          mtmNodes, rcCfg, rcAdds, rcDrops, rcNet,
          ddlXact, MtmDDLStatement, ddlStack, ddlLog, ddlFailed>>

membershipVars == <<status, disabledNodeMask, extension_created>>
barrierVars == <<barrierShared, barrierExcl, mtmLock, stop_new_commits, wpc>>
backendVars == <<pc, MtmTx, loc, streams, outcome, nextXid, gxact>>
peerVars == <<connected, replies, recvActive, recvSeen, peerTx>>
histVars == <<votedPrecommitted, windowDone, installedSince>>
sessionVars == <<exemptSession>>
refereeVars == <<rLink, rStatus, rPeerDisabled, refereeGrant, refereeWinnerId, refWinner>>
gidVars == <<gidArgs, gidStr, gidBack>>
clockVars == <<realClock, last_timestamp, tsPc, tsNow, tsReturned>>
dlVars == <<dlState, dlCopy, dlContrib, dlVictims>>
lkVars == <<lkPc, lkStatus, lkMtm, lkBar, lkExempt>>
cfgVars == <<cfgArgs, cfgCalled, cfgRaised, cfgCreated>>
gucVars == <<MtmGucList, MtmGucHash, gucRoleDiffers, gucClock, gucFirst, gucLast, gucOut>>
sessVars == <<sessPc, sessTx, MyXactFlags, sessStmts, sessCommit>>
capVars == <<xidCap>>
poolVars == <<poolArgs, poolResult>>
rcVars == <<mtmNodes, rcCfg, rcAdds, rcDrops, rcNet>>
ddlVars == <<ddlXact, MtmDDLStatement, ddlStack, ddlLog, ddlFailed>>
pureVars == <<gidVars, clockVars, dlVars, lkVars, cfgVars, gucVars, sessVars, capVars, poolVars, rcVars, ddlVars>>
nodeVars == <<MtmNodeId, sessionVars, membershipVars, barrierVars, backendVars, peerVars, histVars>>
gidFrame == <<nodeVars, refereeVars, clockVars, dlVars, lkVars, cfgVars, gucVars, sessVars, capVars, poolVars, rcVars, ddlVars>>
clockFrame == <<nodeVars, refereeVars, gidVars, dlVars, lkVars, cfgVars, gucVars, sessVars, capVars, poolVars, rcVars, ddlVars>>
dlFrame == <<nodeVars, refereeVars, gidVars, clockVars, lkVars, cfgVars, gucVars, sessVars, capVars, poolVars, rcVars, ddlVars>>
lkFrame == <<nodeVars, refereeVars, gidVars, clockVars, dlVars, cfgVars, gucVars, sessVars, capVars, poolVars, rcVars, ddlVars>>
cfgFrame == <<nodeVars, refereeVars, gidVars, clockVars, dlVars, lkVars, gucVars, sessVars, capVars, poolVars, rcVars, ddlVars>>
gucFrame == <<nodeVars, refereeVars, gidVars, clockVars, dlVars, lkVars, cfgVars, sessVars, capVars, poolVars, rcVars, ddlVars>>
sessFrame == <<nodeVars, refereeVars, gidVars, clockVars, dlVars, lkVars, cfgVars, gucVars, capVars, poolVars, rcVars, ddlVars>>
capFrame == <<nodeVars, refereeVars, gidVars, clockVars, dlVars, lkVars, cfgVars, gucVars, sessVars, poolVars, rcVars, ddlVars>>
poolFrame == <<nodeVars, refereeVars, gidVars, clockVars, dlVars, lkVars, cfgVars, gucVars, sessVars, capVars, rcVars, ddlVars>>
rcFrame == <<nodeVars, refereeVars, gidVars, clockVars, dlVars, lkVars, cfgVars, gucVars, sessVars, capVars, poolVars, ddlVars>>
ddlFrame == <<nodeVars, refereeVars, gidVars, clockVars, dlVars, lkVars, cfgVars, gucVars, sessVars, capVars, poolVars, rcVars>>

\* The nodes of the two-node cluster the referee arbitrates.
RefNodes == {1, 2}

Peers == Nodes \ {MtmNodeId}

\* ---------------------------------------------------------------- helpers

\* sender_to_node[] filled for every node, without the test of line 130.
sender_to_node_NoSkip(self, k) == k + 1

\* sender_to_node[] as the loop of MtmTwoPhaseCommit fills it: entry k is the
\* k-th node id, counted from 0, that is not this node's.
sender_to_node(self, k) ==
    CHOOSE n \in Nodes \ {self} : Cardinality({m \in Nodes \ {self} : m < n}) = k

\* The sender id under which dmq_pop reports node n: receivers are attached in
\* the order of the node ids, skipping this node's.
DmqSenderId(self, n) == Cardinality({m \in Nodes \ {self} : m < n})

\* The mask without the term ~(1 << (MtmNodeId-1)).
ParticipantsMask_WithSelf(nAllNodes, disabled, self) == (1..nAllNodes) \ disabled

\* The mask with 1 << (nAllNodes-1) for 1 << nAllNodes.
ParticipantsMask_OffByOne(nAllNodes, disabled, self) ==
    ((1..(nAllNodes - 1)) \ disabled) \ {self}

\* participantsMask as MtmTwoPhaseCommit computes it under MtmLock(LW_SHARED).
ParticipantsMask(nAllNodes, disabled, self) ==
    ((1..nAllNodes) \ disabled) \ {self}

\* Locals of a commit attempt; they are gone when MtmTwoPhaseCommit is left.  waitMask is the by-value participantsMask of the
\* gather in progress; acked, nacked and dropped record what really happened in
\* that gather: the peers whose reply with the awaited code was popped, the
\* peers whose ABORTED was popped, the peers dropped as disabled.
NoLocals == [participantsMask |-> {}, waitMask |-> {}, prepared |-> TRUE, failed_at |-> 0,
             acked |-> {}, nacked |-> {}, dropped |-> {}]
NoTx == [isDistributed |-> FALSE, containsDML |-> FALSE, xid |-> 0]

\* ------------------------------------------------------------------- Init

\* Line 331 installing the status of a running node.
StartupStatus_Online == "MTM_ONLINE"

\* Line 331 installing the status of a node that replays its donor.
StartupStatus_Recovery == "MTM_RECOVERY"

\* Line 331: Mtm->status = MTM_DISABLED.
StartupStatus == "MTM_DISABLED"

\* The state MtmStateShmemStartup installs, in backends that have not started
\* a transaction yet.
InitShmem ==
    /\ MtmNodeId = 2
    /\ status = StartupStatus
    /\ disabledNodeMask = MaskBits
    /\ stop_new_commits = FALSE
    /\ extension_created = FALSE
    /\ barrierShared = [c \in Backends |-> 0]
    /\ barrierExcl = 0
    /\ mtmLock = [c \in Backends |-> 0]
    /\ wpc = [n \in Nodes |-> "idle"]
    /\ pc = [c \in Backends |-> "idle"]
    /\ MtmTx = [c \in Backends |-> NoTx]
    /\ exemptSession = [c \in Backends |-> FALSE]
    /\ loc = [c \in Backends |-> NoLocals]
    /\ streams = [c \in Backends |-> {}]
    /\ outcome = [c \in Backends |-> "none"]
    /\ nextXid = 1
    /\ gxact = [x \in Xids |-> "none"]
    /\ connected = [n \in Nodes |-> FALSE]
    /\ replies = [n \in Nodes |-> [x \in Xids |-> <<>>]]
    /\ recvActive = [n \in Nodes |-> FALSE]
    /\ recvSeen = [n \in Nodes |-> {}]
    /\ peerTx = [n \in Nodes |-> [x \in Xids |-> "none"]]
    /\ votedPrecommitted = {}
    /\ windowDone = {}
    /\ installedSince = {}
    /\ rLink = TRUE
    /\ rStatus = [n \in RefNodes |-> StartupStatus]
    /\ rPeerDisabled = [n \in RefNodes |-> TRUE]
    /\ refereeGrant = [n \in RefNodes |-> FALSE]
    /\ refereeWinnerId = [n \in RefNodes |-> 0]
    /\ refWinner = 0

\* No call of MtmGenerateGid is followed.
GidIdle == gidArgs = <<>> /\ gidStr = <<>> /\ gidBack = <<>>

\* Lines 318-323: mtm_time->last_timestamp = 0; nobody is inside
\* MtmGetIncreasingTimestamp.
ClockShmem ==
    /\ last_timestamp = 0
    /\ tsPc = [p \in 1..NClockProcs |-> "idle"]
    /\ tsNow = [p \in 1..NClockProcs |-> 0]
    /\ tsReturned = <<>>

ClockIdle == realClock = 0 /\ ClockShmem

\* Two distributed transactions, one from either node of a two-node cluster,
\* that have not touched a row yet.
DlIdle ==
    /\ dlState = [t \in 1..2 |-> "running"]
    /\ dlCopy = [t \in 1..2 |-> [n \in 1..2 |-> "none"]]
    /\ dlContrib = [n \in 1..2 |-> {}]
    /\ dlVictims = {}

\* A backend that holds no lock, on a node that has just started.
LkIdle ==
    lkPc = "idle" /\ lkStatus = StartupStatus /\ lkMtm = 0 /\ lkBar = 0 /\ lkExempt = FALSE

\* The trigger has not fired; the settings are those of a working node.
CfgNotCalled == cfgCalled = FALSE /\ cfgRaised = FALSE /\ cfgCreated = {}
CfgIdle ==
    /\ cfgArgs = [node_id |-> 1, is_self |-> TRUE, my_node_id |-> 0, emerging |-> FALSE,
                  MtmMaxNodes |-> 1, max_prepared_xacts |-> 1, max_worker_processes |-> 3,
                  wal_level |-> "logical", max_wal_senders |-> 1, max_replication_slots |-> 1]
    /\ CfgNotCalled

\* The names of the settings a session changes.
GucKeys == {"search_path", "role", "session_authorization", "work_mem"}

\* A session that has changed no setting: MtmGucHash is NULL, MtmGucList empty.
GucFresh ==
    /\ MtmGucList = <<>>
    /\ MtmGucHash = FALSE
    /\ gucClock = 0
    /\ gucFirst = [k \in GucKeys |-> 0]
    /\ gucLast = [k \in GucKeys |-> 0]
    /\ gucOut = <<>>
GucIdle == gucRoleDiffers = FALSE /\ GucFresh

\* A session outside any transaction.
SessIdle ==
    /\ sessPc = "idle"
    /\ sessTx = [isDistributed |-> FALSE, containsDML |-> FALSE]
    /\ MyXactFlags = FALSE
    /\ sessStmts = <<>>
    /\ sessCommit = "none"

\* No apply worker has a task and MtmAllApplyWorkersFinished was not called.
PoolIdle ==
    /\ poolArgs = [my_node_id |-> 1, pools |-> [n \in Nodes |-> [active |-> 0, pending |-> 0]]]
    /\ poolResult = "none"

\* mtm.nodes is empty and no configuration was loaded.
NullConfig == [isNull |-> TRUE, my_node_id |-> 0, nodes |-> <<>>]
ReloadIdle ==
    /\ mtmNodes = {}
    /\ rcCfg = NullConfig
    /\ rcAdds = [n \in Nodes |-> 0]
    /\ rcDrops = [n \in Nodes |-> 0]
    /\ rcNet = [n \in Nodes |-> 0]

\* DDL capture before the session's first transaction: no statement in
\* progress, MtmDDLStatement NULL as the static of ddl.c line 78 starts.
DdlIdle ==
    /\ ddlXact = "idle"
    /\ MtmDDLStatement = "NULL"
    /\ ddlStack = <<>>
    /\ ddlLog = <<>>
    /\ ddlFailed = 0

\* The session commits MaxXid transactions.
XidCapIdle == xidCap = MaxXid

Init ==
    /\ InitShmem
    /\ GidIdle
    /\ ClockIdle
    /\ DlIdle
    /\ LkIdle
    /\ CfgIdle
    /\ GucIdle
    /\ SessIdle
    /\ XidCapIdle
    /\ PoolIdle
    /\ ReloadIdle
    /\ DdlIdle

\* ------------------------------------------------- host: LWLock, streaming

\* A shared acquisition that does not wait for the exclusive holder.
CanLockShared_Always == TRUE

\* LWLockAcquire(MtmCommitBarrier, LW_SHARED) can proceed.
CanLockShared == barrierExcl = 0

\* LWLockAcquire(MtmCommitBarrier, LW_EXCLUSIVE) can proceed.
CanLockExclusive == barrierExcl = 0 /\ \A c \in Backends : barrierShared[c] = 0

\* The logical decoding of a two-phase record of transaction x reaches every
\* receiver that streams from this node.
Streamed(x, ev) ==
    [n \in Nodes |-> IF recvActive[n] THEN recvSeen[n] \cup {<<x, ev>>} ELSE recvSeen[n]]

\* -------------------------------------------------------- commit.c, backend

\* The test of line 80 letting a recovering node through.
Rejected_OnlyDisabled(user, st, exempt) == user /\ st = "MTM_DISABLED" /\ ~exempt

\* The test of lines 80-83: a user transaction on a node that is not online,
\* unless the session is exempt.
Rejected(user, st, exempt) == user /\ st # "MTM_ONLINE" /\ ~exempt

\* XACT_EVENT_START: MtmBeginTransaction.  user is MtmIsUserTransaction();
\* exempt is true for the user sessions the tests of lines 82-84 let through
\* (admin or broadcast application name, no query string, "create extension
\* multimaster;").  The ERROR is raised inside the transaction that starts; its
\* abort releases every LWLock the backend holds, those an earlier commit left
\* behind included.  A backend is followed until the transaction ids of the
\* model are used up.
MtmBeginTransaction(c) ==
    /\ pc[c] = "idle"
    /\ nextXid <= xidCap
    /\ \E user \in BOOLEAN, exempt \in BOOLEAN :
        /\ exempt => user
        /\ MtmTx' = [MtmTx EXCEPT ![c] = [isDistributed |-> user, containsDML |-> FALSE, xid |-> 0]]
        /\ exemptSession' = [exemptSession EXCEPT ![c] = exempt]
        /\ IF Rejected(user, status, exempt)
             THEN /\ pc' = pc
                  /\ outcome' = [outcome EXCEPT ![c] = "ClusterNotOnline"]
                  /\ barrierShared' = [barrierShared EXCEPT ![c] = 0]
                  /\ mtmLock' = [mtmLock EXCEPT ![c] = 0]
             ELSE /\ pc' = [pc EXCEPT ![c] = "in_tx"]
                  /\ outcome' = [outcome EXCEPT ![c] = "none"]
                  /\ UNCHANGED <<barrierShared, mtmLock>>
    /\ loc' = [loc EXCEPT ![c] = NoLocals]
    /\ UNCHANGED <<streams, nextXid, gxact>>
    /\ UNCHANGED <<barrierExcl, stop_new_commits, wpc>>
    /\ UNCHANGED <<MtmNodeId, pureVars, refereeVars, histVars, membershipVars, peerVars>>

\* MtmExecutorFinish: an INSERT, UPDATE or DELETE that processed rows of a
\* WAL-logged relation marks the transaction.
MtmExecutorFinish(c) ==
    /\ pc[c] = "in_tx"
    /\ ~MtmTx[c].containsDML
    /\ MtmTx' = [MtmTx EXCEPT ![c].containsDML = TRUE]
    /\ UNCHANGED <<pc, loc, streams, outcome, nextXid, gxact>>
    /\ UNCHANGED <<MtmNodeId, pureVars, refereeVars, sessionVars, histVars, membershipVars, barrierVars, peerVars>>

\* The test of line 122 without its second operand.
RunsLocally_IgnoresDML(x) == ~x.isDistributed \/ ~extension_created

\* The test of line 122: the commit is left to the host.
RunsLocally(x) == ~x.isDistributed \/ ~x.containsDML \/ ~extension_created

\* XACT_EVENT_COMMIT_COMMAND: MtmTwoPhaseCommit returns false.
CommitLocal(c) ==
    /\ pc[c] = "in_tx"
    /\ RunsLocally(MtmTx[c])
    /\ pc' = [pc EXCEPT ![c] = "idle"]
    /\ outcome' = [outcome EXCEPT ![c] = "local"]
    /\ UNCHANGED <<MtmTx, loc, streams, nextXid, gxact>>
    /\ UNCHANGED <<MtmNodeId, pureVars, refereeVars, sessionVars, histVars, membershipVars, barrierVars, peerVars>>

\* MtmTwoPhaseCommit, lines 125-152: attach the receivers once per backend,
\* take the transaction id, subscribe to the stream "xid<xid>".
CommitSubscribe(c) ==
    /\ pc[c] = "in_tx"
    /\ ~RunsLocally(MtmTx[c])
    /\ nextXid <= xidCap
    /\ MtmTx' = [MtmTx EXCEPT ![c].xid = nextXid]
    /\ nextXid' = nextXid + 1
    /\ streams' = [streams EXCEPT ![c] = @ \cup {nextXid}]
    /\ pc' = [pc EXCEPT ![c] = "wait_gate"]
    /\ UNCHANGED <<loc, outcome, gxact>>
    /\ UNCHANGED <<MtmNodeId, pureVars, refereeVars, sessionVars, histVars, membershipVars, barrierVars, peerVars>>

\* while (Mtm->stop_new_commits) MtmSleep(USECS_PER_SEC);
WaitGate(c) ==
    /\ pc[c] = "wait_gate"
    /\ ~stop_new_commits
    /\ pc' = [pc EXCEPT ![c] = "acquire_barrier"]
    /\ UNCHANGED <<MtmTx, loc, streams, outcome, nextXid, gxact>>
    /\ UNCHANGED <<MtmNodeId, pureVars, refereeVars, sessionVars, histVars, membershipVars, barrierVars, peerVars>>

\* Line 170 left out: the backend goes on without the barrier.
AcquireBarrier_NoLock(c) ==
    /\ pc[c] = "acquire_barrier"
    /\ pc' = [pc EXCEPT ![c] = "capture"]
    /\ UNCHANGED <<MtmTx, loc, streams, outcome, nextXid, gxact>>
    /\ UNCHANGED <<barrierShared, barrierExcl, mtmLock, stop_new_commits, wpc>>
    /\ UNCHANGED <<MtmNodeId, pureVars, refereeVars, sessionVars, histVars, membershipVars, peerVars>>

\* LWLockAcquire(MtmCommitBarrier, LW_SHARED);
AcquireBarrier(c) ==
    /\ pc[c] = "acquire_barrier"
    /\ CanLockShared
    /\ barrierShared' = [barrierShared EXCEPT ![c] = @ + 1]
    /\ pc' = [pc EXCEPT ![c] = "capture"]
    /\ UNCHANGED <<MtmTx, loc, streams, outcome, nextXid, gxact>>
    /\ UNCHANGED <<barrierExcl, mtmLock, stop_new_commits, wpc>>
    /\ UNCHANGED <<MtmNodeId, pureVars, refereeVars, sessionVars, histVars, membershipVars, peerVars>>

\* Line 176 without its test.
OfflineAtCapture_Never(st) == FALSE

\* The test of line 176.
OfflineAtCapture(st) == st # "MTM_ONLINE"

\* Lines 172-178, one critical section of the membership lock: capture the
\* participants, then fail if the node is not online.  The ERROR is raised
\* inside the transaction, whose abort releases the backend's LWLocks.
CaptureParticipants(c) ==
    /\ pc[c] = "capture"
    /\ IF OfflineAtCapture(status)
         THEN /\ pc' = [pc EXCEPT ![c] = "idle"]
              /\ loc' = [loc EXCEPT ![c] = NoLocals]
              /\ outcome' = [outcome EXCEPT ![c] = "WentOffline"]
              /\ barrierShared' = [barrierShared EXCEPT ![c] = 0]
              /\ mtmLock' = [mtmLock EXCEPT ![c] = 0]
         ELSE /\ pc' = [pc EXCEPT ![c] = "prepare"]
              /\ loc' = [loc EXCEPT ![c].participantsMask =
                            ParticipantsMask(NAllNodes, disabledNodeMask, MtmNodeId)]
              /\ UNCHANGED <<outcome, barrierShared, mtmLock>>
    /\ UNCHANGED <<MtmTx, streams, nextXid, gxact>>
    /\ UNCHANGED <<barrierExcl, stop_new_commits, wpc>>
    /\ UNCHANGED <<MtmNodeId, pureVars, refereeVars, sessionVars, histVars, membershipVars, peerVars>>

\* Lines 180-190: PrepareTransactionBlock and CommitTransactionCommand; on
\* failure the function returns true with the barrier still held.
LocalPrepare(c) ==
    /\ pc[c] = "prepare"
    /\ \E ok \in BOOLEAN :
        IF ok
          THEN /\ gxact' = [gxact EXCEPT ![MtmTx[c].xid] = "prepared"]
               /\ recvSeen' = Streamed(MtmTx[c].xid, "PREPARE")
               /\ loc' = [loc EXCEPT ![c].waitMask = loc[c].participantsMask,
                                     ![c].prepared = TRUE]
               /\ pc' = [pc EXCEPT ![c] = "gather_prepares"]
               /\ UNCHANGED outcome
          ELSE /\ pc' = [pc EXCEPT ![c] = "idle"]
               /\ outcome' = [outcome EXCEPT ![c] = "prepare_failed"]
               /\ loc' = [loc EXCEPT ![c] = NoLocals]
               /\ UNCHANGED <<gxact, recvSeen>>
    /\ UNCHANGED <<MtmTx, streams, nextXid>>
    /\ UNCHANGED <<connected, replies, recvActive, peerTx>>
    /\ UNCHANGED <<MtmNodeId, pureVars, refereeVars, sessionVars, histVars, membershipVars, barrierVars>>

\* dmq_pop(&sender_id, &buffer, mask) returned true: a reply of node n, queued
\* on stream x, is handed to backend c.
DmqPopsMessage(c, n, x) ==
    /\ n \in loc[c].waitMask
    /\ x \in streams[c]
    /\ replies[n][x] # <<>>

\* dmq_pop returned false: the sender of node n is detached.
DmqPopsDetached(c, n) ==
    /\ n \in loc[c].waitMask
    /\ ~connected[n]

\* The node the gather loops attribute a sender id to.
NodeOfSender(n) == sender_to_node(MtmNodeId, DmqSenderId(MtmNodeId, n))

\* GatherPrepares, lines 235-256: a reply was popped.
GatherPreparesPop(c) ==
    /\ pc[c] = "gather_prepares"
    /\ \E n \in Nodes, x \in Xids :
        /\ DmqPopsMessage(c, n, x)
        /\ LET code == Head(replies[n][x])
               good == x = MtmTx[c].xid
           IN loc' = [loc EXCEPT
                  ![c].waitMask = @ \ {NodeOfSender(n)},
                  ![c].prepared = IF code = "MSG_ABORTED" THEN FALSE ELSE @,
                  ![c].failed_at = IF code = "MSG_ABORTED" THEN n ELSE @,
                  ![c].acked = IF code = "MSG_PREPARED" /\ good THEN @ \cup {n} ELSE @,
                  ![c].nacked = IF code = "MSG_ABORTED" /\ good THEN @ \cup {n} ELSE @]
        /\ replies' = [replies EXCEPT ![n][x] = Tail(@)]
    /\ UNCHANGED <<pc, MtmTx, streams, outcome, nextXid, gxact>>
    /\ UNCHANGED <<connected, recvActive, recvSeen, peerTx>>
    /\ UNCHANGED <<MtmNodeId, pureVars, refereeVars, sessionVars, histVars, membershipVars, barrierVars>>

\* Lines 265 and 327 dropping any detached peer.
DropAllowed_Any(node) == TRUE

\* The test of lines 265 and 327: the detached peer may be dropped.
DropAllowed(node) == node \in disabledNodeMask

\* Lines 267 and 329 raising the error whatever the status.
SelfOffline_Always(st) == TRUE

\* The test of lines 267 and 329: this node was disabled meanwhile.
SelfOffline(st) == st # "MTM_ONLINE"

\* GatherPrepares, lines 257-282: the sender is detached.  The ERROR of line 269
\* is raised outside any transaction, with the membership lock and the barrier
\* held.
GatherPreparesDetached(c) ==
    /\ pc[c] = "gather_prepares"
    /\ \E n \in Nodes :
        /\ DmqPopsDetached(c, n)
        /\ IF DropAllowed(NodeOfSender(n))
             THEN IF SelfOffline(status)
                    THEN /\ pc' = [pc EXCEPT ![c] = "idle"]
                         /\ outcome' = [outcome EXCEPT ![c] = "NodeDisabled"]
                         /\ mtmLock' = [mtmLock EXCEPT ![c] = @ + 1]
                         /\ loc' = [loc EXCEPT ![c] = NoLocals]
                    ELSE /\ loc' = [loc EXCEPT
                                ![c].waitMask = @ \ {NodeOfSender(n)},
                                ![c].prepared = FALSE,
                                ![c].failed_at = NodeOfSender(n),
                                ![c].dropped = IF n \in disabledNodeMask THEN @ \cup {n} ELSE @]
                         /\ UNCHANGED <<pc, outcome, mtmLock>>
             ELSE UNCHANGED <<pc, outcome, mtmLock, loc>>
    /\ UNCHANGED <<MtmTx, streams, nextXid, gxact>>
    /\ UNCHANGED <<barrierShared, barrierExcl, stop_new_commits, wpc>>
    /\ UNCHANGED <<MtmNodeId, pureVars, refereeVars, sessionVars, histVars, membershipVars, peerVars>>

\* Line 191 ignoring the result of GatherPrepares.
ProceedsToPrecommit_Always(prepared) == TRUE

\* What MtmTwoPhaseCommit does with the result of GatherPrepares.
ProceedsToPrecommit(prepared) == prepared

\* MtmTwoPhaseCommit, lines 190-202, once the loop of GatherPrepares has ended.
\* The ERROR of line 196 is raised outside any transaction, the barrier held.
GatherPreparesReturn(c) ==
    /\ pc[c] = "gather_prepares"
    /\ loc[c].waitMask = {}
    /\ IF ProceedsToPrecommit(loc[c].prepared)
         THEN /\ gxact' = [gxact EXCEPT ![MtmTx[c].xid] = "precommitted"]
              /\ recvSeen' = Streamed(MtmTx[c].xid, "PRECOMMIT")
              /\ loc' = [loc EXCEPT ![c].waitMask = loc[c].participantsMask,
                                    ![c].acked = {}, ![c].dropped = {}]
              /\ pc' = [pc EXCEPT ![c] = "gather_precommits"]
              /\ UNCHANGED <<streams, outcome>>
         ELSE /\ streams' = [streams EXCEPT ![c] = @ \ {MtmTx[c].xid}]
              /\ gxact' = [gxact EXCEPT ![MtmTx[c].xid] = "aborted"]
              /\ recvSeen' = Streamed(MtmTx[c].xid, "ABORT")
              /\ outcome' = [outcome EXCEPT ![c] = "PrepareFailed"]
              /\ pc' = [pc EXCEPT ![c] = "idle"]
              /\ loc' = [loc EXCEPT ![c] = NoLocals]
    /\ UNCHANGED <<MtmTx, nextXid>>
    /\ UNCHANGED <<connected, replies, recvActive, peerTx>>
    /\ UNCHANGED <<MtmNodeId, pureVars, refereeVars, sessionVars, histVars, membershipVars, barrierVars>>

\* Line 207 passing MSG_PRECOMMITTED a second time.
AwaitedCode_Precommitted(c) == "MSG_PRECOMMITTED"

\* The code GatherPrecommits is called with.
AwaitedCode(c) == IF pc[c] = "gather_precommits" THEN "MSG_PRECOMMITTED" ELSE "MSG_COMMITTED"

\* GatherPrecommits, lines 304-318: a reply was popped.
GatherPrecommitsPop(c) ==
    /\ pc[c] \in {"gather_precommits", "gather_commits"}
    /\ \E n \in Nodes, x \in Xids :
        /\ DmqPopsMessage(c, n, x)
        /\ loc' = [loc EXCEPT
              ![c].waitMask = @ \ {NodeOfSender(n)},
              ![c].acked = IF Head(replies[n][x]) = AwaitedCode(c) /\ x = MtmTx[c].xid
                             THEN @ \cup {n} ELSE @]
        /\ replies' = [replies EXCEPT ![n][x] = Tail(@)]
    /\ UNCHANGED <<pc, MtmTx, streams, outcome, nextXid, gxact>>
    /\ UNCHANGED <<connected, recvActive, recvSeen, peerTx>>
    /\ UNCHANGED <<MtmNodeId, pureVars, refereeVars, sessionVars, histVars, membershipVars, barrierVars>>

\* GatherPrecommits, lines 319-342: the sender is detached.  The ERROR of line
\* 331 is raised outside any transaction in the PRECOMMITTED gather, and inside
\* the transaction of line 204 in the COMMITTED gather, whose abort releases
\* the backend's LWLocks.
GatherPrecommitsDetached(c) ==
    /\ pc[c] \in {"gather_precommits", "gather_commits"}
    /\ \E n \in Nodes :
        /\ DmqPopsDetached(c, n)
        /\ IF DropAllowed(NodeOfSender(n))
             THEN IF SelfOffline(status)
                    THEN /\ pc' = [pc EXCEPT ![c] = "idle"]
                         /\ outcome' = [outcome EXCEPT ![c] = "NodeDisabled"]
                         /\ IF pc[c] = "gather_commits"
                              THEN /\ barrierShared' = [barrierShared EXCEPT ![c] = 0]
                                   /\ mtmLock' = [mtmLock EXCEPT ![c] = 0]
                              ELSE /\ mtmLock' = [mtmLock EXCEPT ![c] = @ + 1]
                                   /\ UNCHANGED barrierShared
                         /\ loc' = [loc EXCEPT ![c] = NoLocals]
                    ELSE /\ loc' = [loc EXCEPT
                                ![c].waitMask = @ \ {NodeOfSender(n)},
                                ![c].dropped = IF n \in disabledNodeMask THEN @ \cup {n} ELSE @]
                         /\ UNCHANGED <<pc, outcome, mtmLock, barrierShared>>
             ELSE UNCHANGED <<pc, outcome, mtmLock, barrierShared, loc>>
    /\ UNCHANGED <<MtmTx, streams, nextXid, gxact>>
    /\ UNCHANGED <<barrierExcl, stop_new_commits, wpc>>
    /\ UNCHANGED <<MtmNodeId, pureVars, refereeVars, sessionVars, histVars, membershipVars, peerVars>>

\* MtmTwoPhaseCommit, lines 202-207, once the PRECOMMITTED gather has ended.
GatherPrecommitsReturn(c) ==
    /\ pc[c] = "gather_precommits"
    /\ loc[c].waitMask = {}
    /\ gxact' = [gxact EXCEPT ![MtmTx[c].xid] = "committed"]
    /\ recvSeen' = Streamed(MtmTx[c].xid, "COMMIT")
    /\ loc' = [loc EXCEPT ![c].waitMask = loc[c].participantsMask,
                          ![c].acked = {}, ![c].dropped = {}]
    /\ pc' = [pc EXCEPT ![c] = "gather_commits"]
    /\ UNCHANGED <<MtmTx, streams, outcome, nextXid>>
    /\ UNCHANGED <<connected, replies, recvActive, peerTx>>
    /\ UNCHANGED <<MtmNodeId, pureVars, refereeVars, sessionVars, histVars, membershipVars, barrierVars>>

\* MtmTwoPhaseCommit, lines 207-209, once the COMMITTED gather has ended:
\* LWLockRelease(MtmCommitBarrier).
ReleaseBarrier(c) ==
    /\ pc[c] = "gather_commits"
    /\ loc[c].waitMask = {}
    /\ barrierShared' = [barrierShared EXCEPT ![c] = @ - 1]
    /\ pc' = [pc EXCEPT ![c] = "unsubscribe"]
    /\ UNCHANGED <<MtmTx, loc, streams, outcome, nextXid, gxact>>
    /\ UNCHANGED <<barrierExcl, mtmLock, stop_new_commits, wpc>>
    /\ UNCHANGED <<MtmNodeId, pureVars, refereeVars, sessionVars, histVars, membershipVars, peerVars>>

\* MtmTwoPhaseCommit, lines 211-216: unsubscribe and return true.
CommitReturn(c) ==
    /\ pc[c] = "unsubscribe"
    /\ streams' = [streams EXCEPT ![c] = @ \ {MtmTx[c].xid}]
    /\ outcome' = [outcome EXCEPT ![c] = "committed"]
    /\ pc' = [pc EXCEPT ![c] = "idle"]
    /\ loc' = [loc EXCEPT ![c] = NoLocals]
    /\ UNCHANGED <<MtmTx, nextXid, gxact>>
    /\ UNCHANGED <<MtmNodeId, pureVars, refereeVars, sessionVars, histVars, membershipVars, barrierVars, peerVars>>

\* --------------------------------------------------- membership (state.c)

\* The single writer of the membership state takes the membership lock
\* exclusively.
MembershipWritable == \A c \in Backends : mtmLock[c] = 0

\* The node can reach a majority of the cluster, itself included.
HasMajority == 2 * (Cardinality({n \in Peers : connected[n]}) + 1) > NAllNodes

\* "create extension multimaster" and the configuration of the node are done.
ExtensionCreated ==
    /\ ~extension_created
    /\ extension_created' = TRUE
    /\ UNCHANGED <<status, disabledNodeMask>>
    /\ UNCHANGED <<MtmNodeId, pureVars, refereeVars, sessionVars, histVars, barrierVars, backendVars, peerVars>>

\* dmq_receiver_start_hook: the DMQ connection of peer n is attached.
MtmOnNodeConnect(n) ==
    /\ n \in Peers
    /\ extension_created
    /\ ~connected[n]
    /\ connected' = [connected EXCEPT ![n] = TRUE]
    /\ UNCHANGED <<replies, recvActive, recvSeen, peerTx>>
    /\ UNCHANGED <<MtmNodeId, pureVars, refereeVars, sessionVars, histVars, membershipVars, barrierVars, backendVars>>

\* dmq_receiver_stop_hook: the DMQ connection of peer n is detached; what it
\* had queued is lost, and the replication stream to its receiver ends with it.
MtmOnNodeDisconnect(n) ==
    /\ n \in Peers
    /\ connected[n]
    /\ connected' = [connected EXCEPT ![n] = FALSE]
    /\ replies' = [replies EXCEPT ![n] = [x \in Xids |-> <<>>]]
    /\ recvActive' = [recvActive EXCEPT ![n] = FALSE]
    /\ recvSeen' = [recvSeen EXCEPT ![n] = {}]
    /\ UNCHANGED peerTx
    /\ UNCHANGED <<MtmNodeId, pureVars, refereeVars, sessionVars, histVars, membershipVars, barrierVars, backendVars>>

\* any state, peer n timed out or its DMQ detached: set bit n of disabled_mask.
DisablePeer(n) ==
    /\ n \in Peers
    /\ MembershipWritable
    /\ ~connected[n]
    /\ n \notin disabledNodeMask
    /\ disabledNodeMask' = disabledNodeMask \cup {n}
    /\ installedSince' = installedSince \ {n}
    /\ UNCHANGED <<status, extension_created, votedPrecommitted, windowDone>>
    /\ UNCHANGED <<MtmNodeId, pureVars, refereeVars, sessionVars, barrierVars, backendVars, peerVars>>

\* any state, heartbeat from peer n after it was disabled: clear bit n.
HeartbeatEnable(n) ==
    /\ n \in Peers
    /\ MembershipWritable
    /\ connected[n]
    /\ n \in disabledNodeMask
    /\ disabledNodeMask' = disabledNodeMask \ {n}
    /\ UNCHANGED <<status, extension_created>>
    /\ UNCHANGED <<MtmNodeId, pureVars, refereeVars, sessionVars, histVars, barrierVars, backendVars, peerVars>>

\* DISABLED -> RECOVERY: a majority is reachable.
StartRecovery ==
    /\ MembershipWritable
    /\ status = "MTM_DISABLED"
    /\ extension_created
    /\ HasMajority
    /\ status' = "MTM_RECOVERY"
    /\ UNCHANGED <<disabledNodeMask, extension_created>>
    /\ UNCHANGED <<MtmNodeId, pureVars, refereeVars, sessionVars, histVars, barrierVars, backendVars, peerVars>>

\* RECOVERY -> RECOVERED: the receiver caught up with the donor.
FinishRecovery ==
    /\ MembershipWritable
    /\ status = "MTM_RECOVERY"
    /\ status' = "MTM_RECOVERED"
    /\ UNCHANGED <<disabledNodeMask, extension_created>>
    /\ UNCHANGED <<MtmNodeId, pureVars, refereeVars, sessionVars, histVars, barrierVars, backendVars, peerVars>>

\* RECOVERED -> ONLINE: the node enables itself.
GoOnline ==
    /\ MembershipWritable
    /\ status = "MTM_RECOVERED"
    /\ status' = "MTM_ONLINE"
    /\ disabledNodeMask' = disabledNodeMask \ {MtmNodeId}
    /\ UNCHANGED extension_created
    /\ UNCHANGED <<MtmNodeId, pureVars, refereeVars, sessionVars, histVars, barrierVars, backendVars, peerVars>>

\* ONLINE -> DISABLED: the node lost the majority.
SelfDisable ==
    /\ MembershipWritable
    /\ status = "MTM_ONLINE"
    /\ ~HasMajority
    /\ status' = "MTM_DISABLED"
    /\ UNCHANGED <<disabledNodeMask, extension_created>>
    /\ UNCHANGED <<MtmNodeId, pureVars, refereeVars, sessionVars, histVars, barrierVars, backendVars, peerVars>>

\* ------------------------------------- receiver-side apply guard (4.3)

\* What a recovered peer has replayed of the transactions of this node when
\* its receiver starts: everything up to the syncpoint.
CaughtUp(n) ==
    [x \in Xids |-> IF peerTx[n][x] \in {"committed", "aborted"} THEN peerTx[n][x]
                    ELSE gxact[x]]

\* The walsender of peer n starts in recovered mode: new commits are stopped.
WorkerStopCommits(n) ==
    /\ n \in Peers
    /\ wpc[n] = "idle"
    /\ connected[n]
    /\ ~recvActive[n]
    /\ stop_new_commits' = TRUE
    /\ wpc' = [wpc EXCEPT ![n] = "acquire"]
    /\ UNCHANGED <<barrierShared, barrierExcl, mtmLock>>
    /\ UNCHANGED <<MtmNodeId, pureVars, refereeVars, sessionVars, histVars, membershipVars, backendVars, peerVars>>

\* Steps 1 to 3: acquire CommitBarrier exclusively, make peer n eligible as a
\* participant and start streaming to its receiver from the syncpoint.
WorkerInstall(n) ==
    /\ wpc[n] = "acquire"
    /\ CanLockExclusive
    /\ MembershipWritable
    /\ barrierExcl' = n
    /\ IF connected[n]
         THEN /\ disabledNodeMask' = disabledNodeMask \ {n}
              /\ recvActive' = [recvActive EXCEPT ![n] = TRUE]
              /\ recvSeen' = [recvSeen EXCEPT ![n] = {}]
              /\ peerTx' = [peerTx EXCEPT ![n] = CaughtUp(n)]
              /\ installedSince' = installedSince \cup {n}
         ELSE UNCHANGED <<disabledNodeMask, recvActive, recvSeen, peerTx, installedSince>>
    /\ wpc' = [wpc EXCEPT ![n] = "release"]
    /\ UNCHANGED <<status, extension_created, connected, replies>>
    /\ UNCHANGED <<barrierShared, mtmLock, stop_new_commits>>
    /\ UNCHANGED <<MtmNodeId, pureVars, refereeVars, sessionVars, votedPrecommitted, windowDone, backendVars>>

\* Step 4: release CommitBarrier and let commits start again.
WorkerRelease(n) ==
    /\ wpc[n] = "release"
    /\ barrierExcl' = 0
    /\ stop_new_commits' = FALSE
    /\ wpc' = [wpc EXCEPT ![n] = "idle"]
    /\ windowDone' = IF n \in installedSince THEN windowDone \cup {n} ELSE windowDone
    /\ UNCHANGED <<barrierShared, mtmLock>>
    /\ UNCHANGED <<votedPrecommitted, installedSince>>
    /\ UNCHANGED <<MtmNodeId, pureVars, refereeVars, sessionVars, membershipVars, backendVars, peerVars>>

\* ------------------------------------------------- peers (receiver, apply)

Reply(n, x, code) == [replies EXCEPT ![n][x] = Append(@, code)]

\* Peer n applies the PREPARE of x and votes.
PeerPrepare(n, x) ==
    /\ recvActive[n]
    /\ <<x, "PREPARE">> \in recvSeen[n]
    /\ peerTx[n][x] = "none"
    /\ \E vote \in {"MSG_PREPARED", "MSG_ABORTED"} :
        /\ peerTx' = [peerTx EXCEPT ![n][x] =
                         IF vote = "MSG_PREPARED" THEN "prepared" ELSE "aborted"]
        /\ replies' = Reply(n, x, vote)
    /\ UNCHANGED <<connected, recvActive, recvSeen>>
    /\ UNCHANGED <<MtmNodeId, pureVars, refereeVars, sessionVars, histVars, membershipVars, barrierVars, backendVars>>

\* Peer n applies the PRECOMMIT of x.
PeerPrecommit(n, x) ==
    /\ recvActive[n]
    /\ <<x, "PRECOMMIT">> \in recvSeen[n]
    /\ peerTx[n][x] = "prepared"
    /\ peerTx' = [peerTx EXCEPT ![n][x] = "precommitted"]
    /\ replies' = Reply(n, x, "MSG_PRECOMMITTED")
    /\ votedPrecommitted' = votedPrecommitted \cup {x}
    /\ UNCHANGED <<connected, recvActive, recvSeen, windowDone, installedSince>>
    /\ UNCHANGED <<MtmNodeId, pureVars, refereeVars, sessionVars, membershipVars, barrierVars, backendVars>>

\* Peer n applies the COMMIT PREPARED of x.
PeerCommit(n, x) ==
    /\ recvActive[n]
    /\ <<x, "COMMIT">> \in recvSeen[n]
    /\ peerTx[n][x] = "precommitted"
    /\ peerTx' = [peerTx EXCEPT ![n][x] = "committed"]
    /\ replies' = Reply(n, x, "MSG_COMMITTED")
    /\ UNCHANGED <<connected, recvActive, recvSeen>>
    /\ UNCHANGED <<MtmNodeId, pureVars, refereeVars, sessionVars, histVars, membershipVars, barrierVars, backendVars>>

\* Peer n applies the ROLLBACK PREPARED of x.
PeerAbort(n, x) ==
    /\ recvActive[n]
    /\ <<x, "ABORT">> \in recvSeen[n]
    /\ peerTx[n][x] \in {"prepared", "precommitted"}
    /\ peerTx' = [peerTx EXCEPT ![n][x] = "aborted"]
    /\ UNCHANGED <<connected, replies, recvActive, recvSeen>>
    /\ UNCHANGED <<MtmNodeId, pureVars, refereeVars, sessionVars, histVars, membershipVars, barrierVars, backendVars>>

\* ------------------------------------------------------------ resolver (4.5)

\* The answer of node q to POLL_STATUS for x.
StatusOf(q, x) ==
    LET st == IF q = MtmNodeId THEN gxact[x] ELSE peerTx[q][x]
    IN CASE st = "committed" -> "COMMIT"
         [] st = "aborted" -> "ABORT"
         [] OTHER -> "UNKNOWN"

\* The decision table.
ResolverDecision(answers, local) ==
    IF "COMMIT" \in answers THEN "committed"
    ELSE IF "ABORT" \in answers THEN "aborted"
    ELSE IF local = "precommitted" THEN "committed"
    ELSE "aborted"

\* The nodes peer n polls: every other node it can reach, the origin included
\* once the network has healed.
PolledBy(n) == (Peers \ {n}) \cup (IF connected[n] THEN {MtmNodeId} ELSE {})

\* The answers of one poll round of peer n for x.
PollAnswers(n, x) == {StatusOf(q, x) : q \in PolledBy(n)}

\* A Resolver that takes up every transaction it finds, settled or not.
Orphaned_Any(st) == st # "none"

\* The Resolver settles orphaned PREPAREd transactions.
Orphaned(st) == st \in {"prepared", "precommitted"}

\* Peer n holds x prepared and no receiver of it streams from the origin (the
\* link was lost, or has healed and the receiver has not started yet): it
\* polls and decides.
Resolve(n, x) ==
    /\ n \in Peers
    /\ ~recvActive[n]
    /\ Orphaned(peerTx[n][x])
    /\ peerTx' = [peerTx EXCEPT ![n][x] = ResolverDecision(PollAnswers(n, x), peerTx[n][x])]
    /\ UNCHANGED <<connected, replies, recvActive, recvSeen>>
    /\ UNCHANGED <<MtmNodeId, pureVars, refereeVars, sessionVars, histVars, membershipVars, barrierVars, backendVars>>

\* ------------------------------------------------------------------- Next

Next ==
    \/ \E c \in Backends :
        \/ MtmBeginTransaction(c)
        \/ MtmExecutorFinish(c)
        \/ CommitLocal(c)
        \/ CommitSubscribe(c)
        \/ WaitGate(c)
        \/ AcquireBarrier(c)
        \/ CaptureParticipants(c)
        \/ LocalPrepare(c)
        \/ GatherPreparesPop(c)
        \/ GatherPreparesDetached(c)
        \/ GatherPreparesReturn(c)
        \/ GatherPrecommitsPop(c)
        \/ GatherPrecommitsDetached(c)
        \/ GatherPrecommitsReturn(c)
        \/ ReleaseBarrier(c)
        \/ CommitReturn(c)
    \/ ExtensionCreated
    \/ StartRecovery
    \/ FinishRecovery
    \/ GoOnline
    \/ SelfDisable
    \/ \E n \in Nodes :
        \/ MtmOnNodeConnect(n)
        \/ MtmOnNodeDisconnect(n)
        \/ DisablePeer(n)
        \/ HeartbeatEnable(n)
        \/ WorkerStopCommits(n)
        \/ WorkerInstall(n)
        \/ WorkerRelease(n)
    \/ \E n \in Nodes, x \in Xids :
        \/ PeerPrepare(n, x)
        \/ PeerPrecommit(n, x)
        \/ PeerCommit(n, x)
        \/ PeerAbort(n, x)
        \/ Resolve(n, x)

Spec == Init /\ [][Next]_vars

\* The scheduling the host gives: a backend that can take its next step takes
\* it, the membership tracker acts on what it observes (a detached peer is
\* put into disabled_mask), a starting walsender goes through the apply
\* guard, and a receiver that was streamed a record applies it.  Connections
\* come and go as the network decides.
Fairness ==
    /\ \A c \in Backends :
        /\ WF_vars(WaitGate(c))
        /\ WF_vars(AcquireBarrier(c))
        /\ WF_vars(CaptureParticipants(c))
        /\ WF_vars(LocalPrepare(c))
        /\ WF_vars(GatherPreparesPop(c))
        /\ SF_vars(GatherPreparesDetached(c))
        /\ WF_vars(GatherPreparesReturn(c))
        /\ WF_vars(GatherPrecommitsPop(c))
        /\ SF_vars(GatherPrecommitsDetached(c))
        /\ WF_vars(GatherPrecommitsReturn(c))
        /\ WF_vars(ReleaseBarrier(c))
        /\ WF_vars(CommitReturn(c))
    /\ \A n \in Nodes :
        /\ WF_vars(DisablePeer(n))
        /\ WF_vars(WorkerStopCommits(n))
        /\ WF_vars(WorkerInstall(n))
        /\ WF_vars(WorkerRelease(n))
    /\ \A n \in Nodes, x \in Xids :
        /\ WF_vars(PeerPrepare(n, x))
        /\ WF_vars(PeerPrecommit(n, x))
        /\ WF_vars(PeerCommit(n, x))
        /\ WF_vars(PeerAbort(n, x))

SpecFair == Spec /\ Fairness

\* The runs in which no peer ever disconnects: the cluster forms and works
\* under load with no failure.
NextNoFailure == Next /\ \A n \in Nodes : ~MtmOnNodeDisconnect(n)

SpecNoFailure == Init /\ [][NextNoFailure]_vars /\ Fairness

\* A client session that commits two transactions one after the other.  The
\* DMQ receivers are attached by the first commit only (DmqSubscribed), and a
\* stream the first commit did not unsubscribe from stays subscribed during
\* the second.  To keep the runs countable the session is an ordinary client
\* (not exempt from the test of MtmBeginTransaction), and the resolver, the
\* aborts it orders and the heartbeat that re-enables a peer ahead of its
\* walsender are left out.
InitTwoXacts ==
    /\ InitShmem
    /\ GidIdle
    /\ ClockIdle
    /\ DlIdle
    /\ LkIdle
    /\ CfgIdle
    /\ GucIdle
    /\ SessIdle
    /\ xidCap = MaxXid + 1
    /\ PoolIdle
    /\ ReloadIdle
    /\ DdlIdle

NextTwoXacts ==
    \/ \E c \in Backends :
        \/ MtmBeginTransaction(c) /\ ~exemptSession'[c]
        \/ MtmExecutorFinish(c)
        \/ CommitLocal(c)
        \/ CommitSubscribe(c)
        \/ WaitGate(c)
        \/ AcquireBarrier(c)
        \/ CaptureParticipants(c)
        \/ LocalPrepare(c)
        \/ GatherPreparesPop(c)
        \/ GatherPreparesDetached(c)
        \/ GatherPreparesReturn(c)
        \/ GatherPrecommitsPop(c)
        \/ GatherPrecommitsDetached(c)
        \/ GatherPrecommitsReturn(c)
        \/ ReleaseBarrier(c)
        \/ CommitReturn(c)
    \/ ExtensionCreated
    \/ StartRecovery
    \/ FinishRecovery
    \/ GoOnline
    \/ SelfDisable
    \/ \E n \in Nodes :
        \/ MtmOnNodeConnect(n)
        \/ MtmOnNodeDisconnect(n)
        \/ DisablePeer(n)
        \/ WorkerStopCommits(n)
        \/ WorkerInstall(n)
        \/ WorkerRelease(n)
    \/ \E n \in Nodes, x \in Xids :
        \/ PeerPrepare(n, x)
        \/ PeerPrecommit(n, x)
        \/ PeerCommit(n, x)

SpecTwoXacts == InitTwoXacts /\ [][NextTwoXacts]_vars


\* ------------------------------------ two-node cluster with a referee (4.2)

\* The other node of the two.
PeerOf(n) == 3 - n

\* A referee that awards its grant to whoever asks.
RefereeAwards_Any(winner, n) == TRUE

\* The referee awards its grant to at most one node per epoch: to the first
\* that asks, and again to the holder.
RefereeAwards(winner, n) == winner \in {0, n}

\* A node works when it reaches its peer or holds the grant.
RefEnabledState(n) == ~rPeerDisabled[n] \/ refereeGrant[n]

\* The link between the two nodes is cut.
RefLinkCut ==
    /\ rLink
    /\ rLink' = FALSE
    /\ UNCHANGED <<rStatus, rPeerDisabled, refereeGrant, refereeWinnerId, refWinner>>
    /\ UNCHANGED <<nodeVars, pureVars>>

\* The link is healed.
RefLinkHeal ==
    /\ ~rLink
    /\ rLink' = TRUE
    /\ UNCHANGED <<rStatus, rPeerDisabled, refereeGrant, refereeWinnerId, refWinner>>
    /\ UNCHANGED <<nodeVars, pureVars>>

\* any state, the peer times out: node n sets the peer's bit and recomputes
\* the clique; an ONLINE node without the grant has lost the majority.
RefPeerTimeout(n) ==
    /\ ~rLink
    /\ ~rPeerDisabled[n]
    /\ rPeerDisabled' = [rPeerDisabled EXCEPT ![n] = TRUE]
    /\ rStatus' = [rStatus EXCEPT ![n] =
                      IF @ = "MTM_ONLINE" /\ ~refereeGrant[n] THEN "MTM_DISABLED" ELSE @]
    /\ UNCHANGED <<rLink, refereeGrant, refereeWinnerId, refWinner>>
    /\ UNCHANGED <<nodeVars, pureVars>>

\* any state, heartbeat from the peer after it was disabled: clear its bit.
RefPeerHeartbeat(n) ==
    /\ rLink
    /\ rPeerDisabled[n]
    /\ rPeerDisabled' = [rPeerDisabled EXCEPT ![n] = FALSE]
    /\ refereeWinnerId' = [refereeWinnerId EXCEPT ![n] = IF refereeGrant[n] THEN @ ELSE 0]
    /\ UNCHANGED <<rLink, rStatus, refereeGrant, refWinner>>
    /\ UNCHANGED <<nodeVars, pureVars>>

\* The clique of node n degenerated to itself: it consults the referee, which
\* awards the grant or names the winner.
RefConsult(n) ==
    /\ rPeerDisabled[n]
    /\ ~refereeGrant[n]
    /\ refereeWinnerId[n] = 0
    /\ IF RefereeAwards(refWinner, n)
         THEN /\ refWinner' = n
              /\ refereeGrant' = [refereeGrant EXCEPT ![n] = TRUE]
              /\ refereeWinnerId' = [refereeWinnerId EXCEPT ![n] = n]
         ELSE /\ refereeWinnerId' = [refereeWinnerId EXCEPT ![n] = refWinner]
              /\ UNCHANGED <<refWinner, refereeGrant>>
    /\ UNCHANGED <<rLink, rStatus, rPeerDisabled>>
    /\ UNCHANGED <<nodeVars, pureVars>>

\* The holder of the grant reaches its peer again, which has recovered: it
\* surrenders the grant and the epoch ends.
RefSurrender(n) ==
    /\ refereeGrant[n]
    /\ ~rPeerDisabled[n]
    /\ rStatus[PeerOf(n)] = "MTM_ONLINE"
    /\ refWinner' = 0
    /\ refereeGrant' = [refereeGrant EXCEPT ![n] = FALSE]
    /\ refereeWinnerId' = [refereeWinnerId EXCEPT ![n] = 0]
    /\ UNCHANGED <<rLink, rStatus, rPeerDisabled>>
    /\ UNCHANGED <<nodeVars, pureVars>>

\* DISABLED -> RECOVERY, RECOVERY -> RECOVERED, RECOVERED -> ONLINE on node n.
RefAdvance(n) ==
    /\ RefEnabledState(n)
    /\ rStatus[n] \in {"MTM_DISABLED", "MTM_RECOVERY", "MTM_RECOVERED"}
    /\ rStatus' = [rStatus EXCEPT ![n] =
                      CASE @ = "MTM_DISABLED" -> "MTM_RECOVERY"
                        [] @ = "MTM_RECOVERY" -> "MTM_RECOVERED"
                        [] OTHER -> "MTM_ONLINE"]
    /\ UNCHANGED <<rLink, rPeerDisabled, refereeGrant, refereeWinnerId, refWinner>>
    /\ UNCHANGED <<nodeVars, pureVars>>

NextReferee ==
    \/ RefLinkCut
    \/ RefLinkHeal
    \/ \E n \in RefNodes :
        \/ RefPeerTimeout(n)
        \/ RefPeerHeartbeat(n)
        \/ RefConsult(n)
        \/ RefSurrender(n)
        \/ RefAdvance(n)

SpecReferee == Init /\ [][NextReferee]_vars

\* ------------------------------------------ multimaster.c, GID (586-608)

\* Strings are sequences of characters.
DigitChar == <<"0", "1", "2", "3", "4", "5", "6", "7", "8", "9">>

IsDigit(ch) == \E d \in 1..10 : DigitChar[d] = ch

DigitVal(ch) == (CHOOSE d \in 1..10 : DigitChar[d] = ch) - 1

\* What printf writes for %d and for XID_FMT with a value that is not negative.
RECURSIVE Dec(_)
Dec(n) == IF n < 10 THEN <<DigitChar[n + 1]>>
          ELSE Dec(n \div 10) \o <<DigitChar[(n % 10) + 1]>>

\* What scanf reads for a number from position i of s: the longest run of
\* digits; ok is false when there is none.
RECURSIVE ScanDigits(_, _, _, _)
ScanDigits(s, i, acc, any) ==
    IF i <= Len(s) /\ IsDigit(s[i])
      THEN ScanDigits(s, i + 1, acc * 10 + DigitVal(s[i]), TRUE)
      ELSE [ok |-> any, val |-> acc, next |-> i]

\* scanf matching the literal "MTM-" at the start of s.
HasGidPrefix(s) == Len(s) >= 4 /\ SubSeq(s, 1, 4) = <<"M", "T", "M", "-">>

\* The transaction ids and node ids the calls are made with.
GidXids == {1, 2, 12, 21, 112, 121, 2147483647}
GidNodes == 1..GidMaxNode
GidInputs == GidNodes \X GidXids

\* sprintf(gid, "MTM-%d" XID_FMT, node_id, xid), the separator left out.
MtmGenerateGid_NoSeparator(xid, node_id) ==
    <<"M", "T", "M", "-">> \o Dec(node_id) \o Dec(xid)

\* sprintf(gid, "MTM-%d-" XID_FMT, node_id, xid);
MtmGenerateGid(xid, node_id) ==
    <<"M", "T", "M", "-">> \o Dec(node_id) \o <<"-">> \o Dec(xid)

\* sscanf(gid, "MTM-%d-%*d", &node_id), node_id being -1 before.
MtmGidParseNodeId(gid) ==
    IF ~HasGidPrefix(gid) THEN -1
    ELSE LET n == ScanDigits(gid, 5, 0, FALSE)
         IN IF n.ok THEN n.val ELSE -1

\* sscanf(gid, "MTM-%*d-" XID_FMT, &xid), xid being InvalidTransactionId before.
MtmGidParseXid(gid) ==
    IF ~HasGidPrefix(gid) THEN 0
    ELSE LET n == ScanDigits(gid, 5, 0, FALSE)
         IN IF ~n.ok \/ n.next > Len(gid) \/ gid[n.next] # "-" THEN 0
            ELSE LET x == ScanDigits(gid, n.next + 1, 0, FALSE)
                 IN IF x.ok THEN x.val ELSE 0

\* Two calls of MtmGenerateGid are about to be made.
InitGid ==
    /\ InitShmem
    /\ gidArgs \in [1..2 -> GidInputs]
    /\ gidStr = <<>>
    /\ gidBack = <<>>
    /\ ClockIdle
    /\ DlIdle
    /\ LkIdle
    /\ CfgIdle
    /\ GucIdle
    /\ SessIdle
    /\ XidCapIdle
    /\ PoolIdle
    /\ ReloadIdle
    /\ DdlIdle

GenerateGids ==
    /\ gidStr = <<>>
    /\ gidStr' = [i \in 1..2 |-> MtmGenerateGid(gidArgs[i][2], gidArgs[i][1])]
    /\ UNCHANGED <<gidArgs, gidBack>>
    /\ UNCHANGED gidFrame

ParseGids ==
    /\ gidStr # <<>>
    /\ gidBack = <<>>
    /\ gidBack' = [i \in 1..2 |-> <<MtmGidParseNodeId(gidStr[i]), MtmGidParseXid(gidStr[i])>>]
    /\ UNCHANGED <<gidArgs, gidStr>>
    /\ UNCHANGED gidFrame

NextGid == GenerateGids \/ ParseGids

SpecGid == InitGid /\ [][NextGid]_vars

\* ------------------------- multimaster.c, MtmGetIncreasingTimestamp (193-210)

ClockProcs == 1..NClockProcs

\* What the real clock can show; timestamps before the epoch are negative.
ClockValues == (0 - 1)..MaxClock

\* Line 203 with < for <=.
IncreasingTimestamp_Strict(now, last) == IF now < last THEN last + 1 ELSE now

\* Lines 203-206: the value the call returns and leaves in last_timestamp.
IncreasingTimestamp(now, last) == IF now <= last THEN last + 1 ELSE now

\* The real clock moves, forward or backward, or stalls.
ClockMoves ==
    /\ \E t \in ClockValues : realClock' = t
    /\ UNCHANGED <<last_timestamp, tsPc, tsNow, tsReturned>>
    /\ UNCHANGED clockFrame

\* Line 196: TimestampTz now = GetCurrentTimestamp();
GetTimestampRead(p) ==
    /\ tsPc[p] = "idle"
    /\ Len(tsReturned) + Cardinality({q \in ClockProcs : tsPc[q] = "spin"}) < MaxClockCalls
    /\ tsNow' = [tsNow EXCEPT ![p] = realClock]
    /\ tsPc' = [tsPc EXCEPT ![p] = "spin"]
    /\ UNCHANGED <<realClock, last_timestamp, tsReturned>>
    /\ UNCHANGED clockFrame

\* Lines 202-209: the section under mtm_time->mutex, and the return.
GetTimestampLocked(p) ==
    /\ tsPc[p] = "spin"
    /\ last_timestamp' = IncreasingTimestamp(tsNow[p], last_timestamp)
    /\ tsNow' = [tsNow EXCEPT ![p] = last_timestamp']
    /\ tsReturned' = Append(tsReturned, last_timestamp')
    /\ tsPc' = [tsPc EXCEPT ![p] = "idle"]
    /\ UNCHANGED realClock
    /\ UNCHANGED clockFrame

InitClock ==
    /\ InitShmem
    /\ GidIdle
    /\ realClock \in ClockValues
    /\ ClockShmem
    /\ DlIdle
    /\ LkIdle
    /\ CfgIdle
    /\ GucIdle
    /\ SessIdle
    /\ XidCapIdle
    /\ PoolIdle
    /\ ReloadIdle
    /\ DdlIdle

NextClock ==
    \/ ClockMoves
    \/ \E p \in ClockProcs : GetTimestampRead(p) \/ GetTimestampLocked(p)

SpecClock == InitClock /\ [][NextClock]_vars

\* --------------------------------------------- deadlock detector (4.4)

\* Transaction t originates on node t and has the GID "MTM-t-..."; both
\* transactions update the same row.
DlTxs == 1..2
DlNodes == 1..2

\* WF_n: the copy of t on node n waits on the lock the copy of u holds.
WaitFor(n) ==
    {e \in DlTxs \X DlTxs : dlCopy[e[1]][n] = "waits" /\ dlCopy[e[2]][n] = "holds"}

\* The transactions on a cycle of the wait-for graph as it is.
OnCycle == {t \in DlTxs : \E u \in DlTxs : \E n, m \in DlNodes :
                <<t, u>> \in WaitFor(n) /\ <<u, t>> \in WaitFor(m)}

\* The graph the detector merges from what the nodes sent, and its cycles.
MergedGraph == UNION {dlContrib[n] : n \in DlNodes}
MergedCycle == {t \in DlTxs : \E u \in DlTxs : <<t, u>> \in MergedGraph /\ <<u, t>> \in MergedGraph}

\* The victim: the lowest GID on the cycle.
DlVictim(cycle) == CHOOSE t \in cycle : \A u \in cycle : t <= u

\* The copy of t on node n reaches the row: on its origin when the client
\* updates it, elsewhere when the PREPARE that was streamed is applied.
DlLock(t, n) ==
    /\ dlCopy[t][n] = "none"
    /\ IF n = t THEN dlState[t] = "running" ELSE dlCopy[t][t] \in {"holds", "done"}
    /\ dlCopy' = [dlCopy EXCEPT ![t][n] =
                     IF \E u \in DlTxs : dlCopy[u][n] = "holds" THEN "waits" ELSE "holds"]
    /\ UNCHANGED <<dlState, dlContrib, dlVictims>>
    /\ UNCHANGED dlFrame

\* The lock the copy waits on was released.
DlGrant(t, n) ==
    /\ dlCopy[t][n] = "waits"
    /\ \A u \in DlTxs : dlCopy[u][n] # "holds"
    /\ dlCopy' = [dlCopy EXCEPT ![t][n] = "holds"]
    /\ UNCHANGED <<dlState, dlContrib, dlVictims>>
    /\ UNCHANGED dlFrame

\* Every node has prepared t: it commits.
DlCommit(t) ==
    /\ dlState[t] = "running"
    /\ \A n \in DlNodes : dlCopy[t][n] = "holds"
    /\ dlState' = [dlState EXCEPT ![t] = "committed"]
    /\ dlCopy' = [dlCopy EXCEPT ![t] = [n \in DlNodes |-> "done"]]
    /\ UNCHANGED <<dlContrib, dlVictims>>
    /\ UNCHANGED dlFrame

\* t is aborted on its origin for a reason of its own (a failed PREPARE, a
\* cancelled client) after its PREPARE was streamed.
DlAbortOrigin(t) ==
    /\ dlState[t] = "running"
    /\ dlCopy[t][t] = "holds"
    /\ dlState' = [dlState EXCEPT ![t] = "aborted"]
    /\ dlCopy' = [dlCopy EXCEPT ![t][t] = "done"]
    /\ UNCHANGED <<dlContrib, dlVictims>>
    /\ UNCHANGED dlFrame

\* The abort of t reaches its copy on node n.
DlAbortCopy(t, n) ==
    /\ dlState[t] = "aborted"
    /\ dlCopy[t][n] \in {"holds", "waits"}
    /\ dlCopy' = [dlCopy EXCEPT ![t][n] = "done"]
    /\ UNCHANGED <<dlState, dlContrib, dlVictims>>
    /\ UNCHANGED dlFrame

\* Periodically node n sends its wait-for graph to the detector.
DlSend(n) ==
    /\ dlContrib' = [dlContrib EXCEPT ![n] = WaitFor(n)]
    /\ UNCHANGED <<dlState, dlCopy, dlVictims>>
    /\ UNCHANGED dlFrame

\* The detector finds a cycle in the merged graph and broadcasts ABORT(gid)
\* for the victim.
DlDetect ==
    /\ MergedCycle # {}
    /\ LET v == DlVictim(MergedCycle)
       IN /\ dlState[v] = "running"
          /\ dlState' = [dlState EXCEPT ![v] = "aborted"]
          /\ dlVictims' = dlVictims \cup {v}
    /\ UNCHANGED <<dlCopy, dlContrib>>
    /\ UNCHANGED dlFrame

NextDeadlock ==
    \/ \E t \in DlTxs, n \in DlNodes : DlLock(t, n) \/ DlGrant(t, n) \/ DlAbortCopy(t, n)
    \/ \E t \in DlTxs : DlCommit(t) \/ DlAbortOrigin(t)
    \/ \E n \in DlNodes : DlSend(n)
    \/ DlDetect

SpecDeadlock == Init /\ [][NextDeadlock]_vars

\* ------------------------------- commit.c, the locks of one backend

\* The locking of MtmTwoPhaseCommit, GatherPrepares and GatherPrecommits for a
\* backend that commits one transaction after the other, whatever the peers
\* reply.  An ERROR raised inside a transaction releases every LWLock of the
\* backend; one raised outside any transaction releases none.

\* Positions at which the backend is inside a transaction of the host.
LkInTransaction == lkPc \in {"in_tx", "acquire_barrier", "capture", "prepare", "gather_commits"}

\* MtmBeginTransaction, lines 68-92, of a user transaction.
LkBegin ==
    /\ lkPc = "idle"
    /\ \E exempt \in BOOLEAN :
        /\ lkExempt' = exempt
        /\ IF Rejected(TRUE, lkStatus, exempt)
             THEN lkPc' = lkPc /\ lkMtm' = 0 /\ lkBar' = 0
             ELSE lkPc' = "in_tx" /\ UNCHANGED <<lkMtm, lkBar>>
    /\ UNCHANGED lkStatus
    /\ UNCHANGED lkFrame

\* Lines 122-168: the commit of a distributed transaction with DML gets past
\* the gate.
LkCommit ==
    /\ lkPc = "in_tx"
    /\ lkPc' = "acquire_barrier"
    /\ UNCHANGED <<lkStatus, lkMtm, lkBar, lkExempt>>
    /\ UNCHANGED lkFrame

\* Line 170: LWLockAcquire(MtmCommitBarrier, LW_SHARED).
LkAcquireBarrier ==
    /\ lkPc = "acquire_barrier"
    /\ lkBar < MaxHeld
    /\ lkBar' = lkBar + 1
    /\ lkPc' = "capture"
    /\ UNCHANGED <<lkStatus, lkMtm, lkExempt>>
    /\ UNCHANGED lkFrame

\* Lines 172-178: MtmLock, the capture, the ERROR of line 177 or MtmUnlock.
LkCapture ==
    /\ lkPc = "capture"
    /\ IF OfflineAtCapture(lkStatus)
         THEN lkPc' = "idle" /\ lkMtm' = 0 /\ lkBar' = 0
         ELSE lkPc' = "prepare" /\ UNCHANGED <<lkMtm, lkBar>>
    /\ UNCHANGED <<lkStatus, lkExempt>>
    /\ UNCHANGED lkFrame

\* Lines 180-188: PrepareTransactionBlock; `return true` of line 185 on failure.
LkPrepare ==
    /\ lkPc = "prepare"
    /\ \E ok \in BOOLEAN : lkPc' = IF ok THEN "gather_prepares" ELSE "idle"
    /\ UNCHANGED <<lkStatus, lkMtm, lkBar, lkExempt>>
    /\ UNCHANGED lkFrame

\* Lines 257-282 and 322-342: dmq_pop reported a detached sender.  MtmLock is
\* taken; the ERROR of lines 269 and 331 is raised before MtmUnlock.
LkGatherDetached ==
    /\ lkPc \in {"gather_prepares", "gather_precommits", "gather_commits"}
    /\ \E disabled \in BOOLEAN :
        IF disabled /\ SelfOffline(lkStatus)
          THEN /\ lkPc' = "idle"
               /\ IF LkInTransaction
                    THEN lkMtm' = 0 /\ lkBar' = 0
                    ELSE lkMtm' = lkMtm + 1 /\ UNCHANGED lkBar
          ELSE UNCHANGED <<lkPc, lkMtm, lkBar>>
    /\ UNCHANGED <<lkStatus, lkExempt>>
    /\ UNCHANGED lkFrame

\* Lines 190-209: a gather loop has ended.
LkGatherReturn ==
    /\ \/ /\ lkPc = "gather_prepares"
          /\ \E prepared \in BOOLEAN :
                lkPc' = IF ProceedsToPrecommit(prepared) THEN "gather_precommits" ELSE "idle"
          /\ UNCHANGED lkBar
       \/ /\ lkPc = "gather_precommits"
          /\ lkPc' = "gather_commits"
          /\ UNCHANGED lkBar
       \/ /\ lkPc = "gather_commits"
          /\ lkPc' = "idle"
          /\ lkBar' = lkBar - 1
    /\ UNCHANGED <<lkStatus, lkMtm, lkExempt>>
    /\ UNCHANGED lkFrame

\* The membership tracker changes Mtm->status under MtmLock(LW_EXCLUSIVE).
LkStatusChanges ==
    /\ lkMtm = 0
    /\ lkStatus' = IF lkStatus = "MTM_ONLINE" THEN "MTM_DISABLED" ELSE "MTM_ONLINE"
    /\ UNCHANGED <<lkPc, lkMtm, lkBar, lkExempt>>
    /\ UNCHANGED lkFrame

NextLocks ==
    \/ LkBegin
    \/ LkCommit
    \/ LkAcquireBarrier
    \/ LkCapture
    \/ LkPrepare
    \/ LkGatherDetached
    \/ LkGatherReturn
    \/ LkStatusChanges

SpecLocks == Init /\ [][NextLocks]_vars

\* ------------------------------------------- multimaster.c, node creation

\* The rows that may be inserted into mtm.nodes and the settings the host may
\* run with.
CfgInputs ==
    [node_id : 0..(MTM_MAX_NODES + 1), is_self : BOOLEAN,
     my_node_id : 0..1, emerging : BOOLEAN,
     MtmMaxNodes : 0..MTM_MAX_NODES, max_prepared_xacts : 0..1,
     max_worker_processes : {0, MaxSetting, MaxSetting + 1, MaxSetting + 2},
     wal_level : {"replica", "logical"},
     max_wal_senders : {0, MTM_MAX_NODES - 1, MTM_MAX_NODES},
     max_replication_slots : {0, MTM_MAX_NODES - 1, MTM_MAX_NODES}]

\* Line 679 without the worker of the monitor.
workers_required_NoSpare(MtmMaxNodes_) == 2 * MtmMaxNodes_

\* Line 679: int workers_required = 2 * MtmMaxNodes + 1;
workers_required(MtmMaxNodes_) == 2 * MtmMaxNodes_ + 1

\* check_config(), lines 659-714.
check_config(g) ==
    /\ ~(g.MtmMaxNodes < 1)
    /\ ~(g.max_prepared_xacts < 1)
    /\ ~(g.max_worker_processes < workers_required(g.MtmMaxNodes))
    /\ ~(g.wal_level # "logical")
    /\ ~(g.max_wal_senders < g.MtmMaxNodes)
    /\ ~(g.max_replication_slots < g.MtmMaxNodes)

\* mtm_after_node_create, lines 716-853: the trigger on an insert into
\* mtm.nodes.
mtm_after_node_create ==
    /\ ~cfgCalled
    /\ cfgCalled' = TRUE
    /\ LET g == cfgArgs
       IN IF g.node_id <= 0 \/ g.node_id > MTM_MAX_NODES
            THEN cfgRaised' = TRUE /\ cfgCreated' = {}
          ELSE IF ~check_config(g)
            THEN cfgRaised' = TRUE /\ cfgCreated' = {}
          ELSE IF g.is_self
            THEN cfgRaised' = FALSE /\ cfgCreated' = {"publication", "monitor"}
          ELSE IF g.my_node_id = 0 /\ ~g.emerging
            THEN cfgRaised' = TRUE /\ cfgCreated' = {}
          ELSE /\ cfgRaised' = FALSE
               /\ cfgCreated' = {"remote_slot", "subscription", "recovery_slot", "origin"}
    /\ UNCHANGED cfgArgs
    /\ UNCHANGED cfgFrame

InitConfig ==
    /\ InitShmem
    /\ GidIdle
    /\ ClockIdle
    /\ DlIdle
    /\ LkIdle
    /\ cfgArgs \in CfgInputs
    /\ CfgNotCalled
    /\ GucIdle
    /\ SessIdle
    /\ XidCapIdle
    /\ PoolIdle
    /\ ReloadIdle
    /\ DdlIdle

SpecConfig == InitConfig /\ [][mtm_after_node_create]_vars

\* ------------------------------ multimaster.c, MtmAllApplyWorkersFinished

\* The pools of the nodes and the id of this node.
PoolInputs ==
    [my_node_id : Nodes,
     pools : [Nodes -> [active : 0..MaxTasks, pending : 0..MaxTasks]]]

\* Lines 630-645, the loop from node index i - 1 on.  The statement of line 644
\* is the expression `false;`, which has no effect: the loop goes on to the
\* next node whatever ntasks is.
RECURSIVE ApplyWorkersLoop(_, _)
ApplyWorkersLoop(a, i) ==
    IF i > NAllNodes THEN TRUE
    ELSE IF i = a.my_node_id THEN ApplyWorkersLoop(a, i + 1)
    ELSE LET ntasks == a.pools[i].active + a.pools[i].pending
         IN  IF ntasks # 0 THEN ApplyWorkersLoop(a, i + 1)
                           ELSE ApplyWorkersLoop(a, i + 1)

\* bool MtmAllApplyWorkersFinished(): the call and what it returns.
MtmAllApplyWorkersFinished ==
    /\ poolResult = "none"
    /\ poolResult' = IF ApplyWorkersLoop(poolArgs, 1) THEN "true" ELSE "false"
    /\ UNCHANGED poolArgs
    /\ UNCHANGED poolFrame

InitPools ==
    /\ InitShmem
    /\ GidIdle
    /\ ClockIdle
    /\ DlIdle
    /\ LkIdle
    /\ CfgIdle
    /\ GucIdle
    /\ SessIdle
    /\ XidCapIdle
    /\ poolArgs \in PoolInputs
    /\ poolResult = "none"
    /\ ReloadIdle
    /\ DdlIdle

SpecPools == InitPools /\ [][MtmAllApplyWorkersFinished]_vars

\* ------------------------------------- multimaster.c, MtmReloadConfig

\* A row of mtm.nodes is inserted or deleted; the row of this node is the one
\* with is_self.
MtmNodesChange ==
    /\ \E n \in Nodes :
        mtmNodes' = IF n \in mtmNodes THEN mtmNodes \ {n} ELSE mtmNodes \cup {n}
    /\ UNCHANGED <<rcCfg, rcAdds, rcDrops, rcNet>>
    /\ UNCHANGED rcFrame

\* "select * from mtm.nodes order by id asc": the ids in rows, ascending.
RECURSIVE RowsById(_)
RowsById(rows) ==
    IF rows = {} THEN <<>>
    ELSE LET id == CHOOSE r \in rows : \A q \in rows : r <= q
         IN  <<id>> \o RowsById(rows \ {id})

\* MtmLoadConfig, lines 943-977, from row i of the result on: the row with
\* is_self gives my_node_id, every other row is appended to cfg->nodes.
RECURSIVE LoadRows(_, _, _, _)
LoadRows(result, self, i, cfg) ==
    IF i > Len(result) THEN cfg
    ELSE IF result[i] = self
           THEN LoadRows(result, self, i + 1, [cfg EXCEPT !.my_node_id = result[i]])
           ELSE LoadRows(result, self, i + 1, [cfg EXCEPT !.nodes = Append(@, result[i])])

\* MtmLoadConfig.
MtmLoadConfig(rows, self) ==
    LoadRows(RowsById(rows), self, 1, [isNull |-> FALSE, my_node_id |-> 0, nodes |-> <<>>])

\* Lines 1023-1029: the bitmapset of the node ids of a configuration, empty
\* for a NULL configuration.
RECURSIVE BmsOfNodes(_, _)
BmsOfNodes(cfg, i) ==
    IF cfg.isNull \/ i > Len(cfg.nodes) THEN {}
    ELSE {cfg.nodes[i]} \cup BmsOfNodes(cfg, i + 1)

\* Line 1032 taking the whole new set.
CreatedNodes_All(old_bms, new_bms) == new_bms

\* Line 1032: created = bms_difference(new_bms, old_bms).
CreatedNodes(old_bms, new_bms) == new_bms \ old_bms

\* Line 1031: deleted = bms_difference(old_bms, new_bms).
DeletedNodes(old_bms, new_bms) == old_bms \ new_bms

\* MtmReloadConfig with both callbacks given: the loops of lines 1037-1049 call
\* node_add_cb for every member of created and node_drop_cb for every member
\* of deleted; the caller keeps the configuration returned.
MtmReloadConfig ==
    LET new_cfg == MtmLoadConfig(mtmNodes, MtmNodeId)
        old_bms == BmsOfNodes(rcCfg, 1)
        new_bms == BmsOfNodes(new_cfg, 1)
        created == CreatedNodes(old_bms, new_bms)
        deleted == DeletedNodes(old_bms, new_bms)
    IN  /\ rcAdds' = [n \in Nodes |-> IF n \in created THEN 1 ELSE 0]
        /\ rcDrops' = [n \in Nodes |-> IF n \in deleted THEN 1 ELSE 0]
        /\ rcNet' = [n \in Nodes |-> rcNet[n] + rcAdds'[n] - rcDrops'[n]]
        /\ rcCfg' = new_cfg
        /\ UNCHANGED mtmNodes
        /\ UNCHANGED rcFrame

NextReload == MtmNodesChange \/ MtmReloadConfig

SpecReload == Init /\ [][NextReload]_vars

\* ------------------------------------- ddl.c, capture of utility statements

\* Line 782 without the test of MtmDDLStatement.
Captures_Always(skipCommand, stmt) == ~skipCommand

\* The test of line 782: the statement is logged as transactional DDL.
Captures(skipCommand, stmt) == ~skipCommand /\ stmt = "NULL"

\* A statement the switch of line 486 leaves to be captured ("ddl"), one of
\* the list of line 512 ("skipped", skipCommand = true), and COMMIT, a
\* T_TransactionStmt that falls through to the same list.
StmtKinds == {"ddl", "skipped", "commit"}

\* The start of a transaction: MtmBeginTransaction (commit.c lines 68-76)
\* calls MtmDDLResetStatement (ddl.c lines 1274-1278) before anything else.
DdlBegin ==
    /\ ddlXact = "idle"
    /\ ddlXact' = "active"
    /\ MtmDDLStatement' = "NULL"
    /\ ddlFailed' = 0
    /\ UNCHANGED <<ddlStack, ddlLog>>
    /\ UNCHANGED ddlFrame

\* MtmProcessUtility from its entry to the call of line 799: at the top
\* level, or from inside a statement that is being executed. Lines 782-795
\* log "D" (MtmProcessDDLCommand, lines 382-400), set the local executed and
\* the marker.
DdlUtilityEnter ==
    /\ ddlXact = "active"
    /\ Len(ddlStack) < MaxDepth
    /\ ddlStack # <<>> => ddlStack[Len(ddlStack)].kind # "commit"
    /\ \E kind \in StmtKinds :
        LET executed == Captures(kind # "ddl", MtmDDLStatement)
        IN /\ kind = "commit" => ddlStack = <<>>
           /\ executed => Len(ddlLog) + 2 <= MaxDdlLog
           /\ ddlLog' = IF executed THEN Append(ddlLog, "D") ELSE ddlLog
           /\ MtmDDLStatement' = IF executed THEN "stmt" ELSE MtmDDLStatement
           /\ ddlStack' = Append(ddlStack, [executed |-> executed, kind |-> kind])
    /\ UNCHANGED <<ddlXact, ddlFailed>>
    /\ UNCHANGED ddlFrame

\* The call of lines 799-810 returns and MtmProcessUtility runs to its end:
\* lines 834-838 log "E" (MtmFinishDDLCommand) and clear the marker if this
\* call had logged "D". COMMIT ends the transaction (also by the return of
\* line 495); a statement run outside a block may end it as well.
DdlUtilityLeave ==
    /\ ddlStack # <<>>
    /\ LET top == ddlStack[Len(ddlStack)]
       IN /\ ddlLog' = IF top.executed THEN Append(ddlLog, "E") ELSE ddlLog
          /\ MtmDDLStatement' = IF top.executed THEN "NULL" ELSE MtmDDLStatement
          /\ \E ends \in BOOLEAN :
                /\ ends => Len(ddlStack) = 1
                /\ top.kind = "commit" => ends
                /\ ddlXact' = IF ends THEN "idle" ELSE ddlXact
    /\ ddlStack' = SubSeq(ddlStack, 1, Len(ddlStack) - 1)
    /\ UNCHANGED ddlFailed
    /\ UNCHANGED ddlFrame

\* The call of lines 799-810 raises an ERROR: the calls in progress are left
\* without reaching line 834. The transaction is aborted, or a subtransaction
\* catches the error (an exception block of a statement in progress, or a
\* rollback to a savepoint) and the transaction goes on.
DdlUtilityError ==
    /\ ddlStack # <<>>
    /\ ddlFailed < MaxDdlErrors
    /\ \E k \in 0..(Len(ddlStack) - 1), caught \in BOOLEAN :
        /\ ~caught => k = 0
        /\ ddlStack' = SubSeq(ddlStack, 1, k)
        /\ ddlXact' = IF caught THEN "active" ELSE "idle"
    /\ ddlFailed' = ddlFailed + 1
    /\ UNCHANGED <<MtmDDLStatement, ddlLog>>
    /\ UNCHANGED ddlFrame

NextDDL == DdlBegin \/ DdlUtilityEnter \/ DdlUtilityLeave \/ DdlUtilityError

SpecDDL == Init /\ [][NextDDL]_vars

\* ------------------------------------------------- ddl.c, GUC overrides

GucValues == {"1", "2"}

\* dlist_delete of the entry of key, if there is one.
GucListDelete(list, key) == SelectSeq(list, LAMBDA e : e.key # key)

GucFound(list, key) == \E i \in 1..Len(list) : list[i].key = key

\* MtmGucUpdate that overwrites the value of a present key where it is.
MtmGucUpdate_InPlace(list, key, value) ==
    IF GucFound(list, key)
      THEN [i \in 1..Len(list) |->
               IF list[i].key = key THEN [key |-> key, value |-> value] ELSE list[i]]
      ELSE Append(list, [key |-> key, value |-> value])

\* MtmGucUpdate, lines 221-238: a present entry is unlinked; the entry is
\* pushed to the tail.
MtmGucUpdate(list, key, value) ==
    Append(GucListDelete(list, key), [key |-> key, value |-> value])

\* MtmGucRemove, lines 240-256.
MtmGucRemove(list, key) == GucListDelete(list, key)

\* MtmGucInit, lines 173-200, run by whatever function finds MtmGucHash NULL.
MtmGucInit(list, hash) ==
    IF ~hash /\ gucRoleDiffers
      THEN MtmGucUpdate(list, "session_authorization", "1")
      ELSE list

\* MtmGucSet, lines 258-295, on the list as MtmGucInit left it.
MtmGucSetOn(list, kind, name, value) ==
    CASE kind = "VAR_SET_VALUE" -> MtmGucUpdate(list, name, value)
      [] kind = "VAR_SET_DEFAULT" -> MtmGucRemove(list, name)
      [] kind = "VAR_RESET" ->
            MtmGucRemove(IF name = "session_authorization"
                           THEN MtmGucRemove(list, "role") ELSE list, name)
      [] kind = "VAR_RESET_ALL" -> <<>>
      [] OTHER -> list

MtmGucSet ==
    /\ gucClock < 2 * MaxGucOps
    /\ \E kind \in {"VAR_SET_VALUE", "VAR_SET_DEFAULT", "VAR_RESET", "VAR_RESET_ALL",
                    "VAR_SET_CURRENT"},
          name \in GucKeys, value \in GucValues :
        LET inited == MtmGucInit(MtmGucList, MtmGucHash)
            after == MtmGucSetOn(inited, kind, name, value)
            isSet == kind = "VAR_SET_VALUE"
        IN /\ MtmGucList' = after
           /\ MtmGucHash' = ~(kind = "VAR_RESET_ALL" /\ inited # <<>>)
           /\ gucFirst' = [k \in GucKeys |->
                             IF ~GucFound(after, k) THEN 0
                             ELSE IF gucFirst[k] # 0 THEN gucFirst[k]
                             ELSE IF GucFound(inited, k) THEN gucClock + 1
                             ELSE gucClock + 2]
           /\ gucLast' = [k \in GucKeys |->
                             IF ~GucFound(after, k) THEN 0
                             ELSE IF isSet /\ k = name THEN gucClock + 2
                             ELSE IF gucLast[k] # 0 THEN gucLast[k]
                             ELSE gucClock + 1]
           /\ gucClock' = gucClock + 2
    /\ gucOut' = <<>>
    /\ UNCHANGED gucRoleDiffers
    /\ UNCHANGED gucFrame

\* MtmGucSerialize, lines 325-371: one SET per entry, head first, but for
\* search_path, whose current value is appended at the end.
MtmGucSerializeList(list) ==
    SelectSeq(list, LAMBDA e : e.key # "search_path")
        \o <<[key |-> "search_path", value |-> "current"]>>

MtmGucSerialize ==
    /\ LET inited == MtmGucInit(MtmGucList, MtmGucHash)
       IN /\ MtmGucList' = inited
          /\ gucOut' = MtmGucSerializeList(inited)
          /\ gucFirst' = [gucFirst EXCEPT !["session_authorization"] =
                             IF GucFound(inited, "session_authorization") /\ @ = 0
                               THEN gucClock + 1 ELSE @]
          /\ gucLast' = [gucLast EXCEPT !["session_authorization"] =
                             IF GucFound(inited, "session_authorization") /\ @ = 0
                               THEN gucClock + 1 ELSE @]
    /\ MtmGucHash' = TRUE
    /\ UNCHANGED <<gucRoleDiffers, gucClock>>
    /\ UNCHANGED gucFrame

InitGuc ==
    /\ InitShmem
    /\ GidIdle
    /\ ClockIdle
    /\ DlIdle
    /\ LkIdle
    /\ CfgIdle
    /\ gucRoleDiffers \in BOOLEAN
    /\ GucFresh
    /\ SessIdle
    /\ XidCapIdle
    /\ PoolIdle
    /\ ReloadIdle
    /\ DdlIdle

NextGuc == MtmGucSet \/ MtmGucSerialize

SpecGuc == InitGuc /\ [][NextGuc]_vars

\* --------------------------------------- ddl.c, the statements of a block

\* BEGIN of a user session: MtmBeginTransaction (commit.c lines 68-76) at the
\* start of the transaction; the host starts it with no flag set.
SessBegin ==
    /\ sessPc = "idle"
    /\ sessPc' = "in_block"
    /\ sessTx' = [isDistributed |-> TRUE, containsDML |-> FALSE]
    /\ MyXactFlags' = FALSE
    /\ sessStmts' = <<>>
    /\ sessCommit' = "none"
    /\ UNCHANGED sessFrame

\* INSERT into a temporary or a persistent table: the host flags the access
\* to a temporary relation; MtmExecutorFinish (lines 907-934) marks the
\* transaction if a relation that needs WAL got rows.
SessInsert ==
    /\ sessPc = "in_block"
    /\ Len(sessStmts) < MaxStmts
    /\ \E temp \in BOOLEAN :
        /\ MyXactFlags' = (MyXactFlags \/ temp)
        /\ sessTx' = [sessTx EXCEPT !.containsDML = @ \/ ~temp]
        /\ sessStmts' = Append(sessStmts, IF temp THEN "insert_temp" ELSE "insert_persistent")
    /\ UNCHANGED <<sessPc, sessCommit>>
    /\ UNCHANGED sessFrame

\* Lines 826-832 leaving MtmTx alone.
StopsReplication_Never(flags) == FALSE

\* The test of line 826.
StopsReplication(flags) == flags

\* MtmProcessUtility, lines 466-850, for CREATE TEMPORARY TABLE (captured as
\* DDL) and for a statement of the list of line 512 (not captured).
SessProcessUtility ==
    /\ sessPc = "in_block"
    /\ Len(sessStmts) < MaxStmts
    /\ \E createTemp \in BOOLEAN :
        LET flags == MyXactFlags \/ createTemp
        IN /\ MyXactFlags' = flags
           /\ sessTx' = [isDistributed |-> sessTx.isDistributed /\ ~StopsReplication(flags),
                         containsDML |-> sessTx.containsDML \/ createTemp]
           /\ sessStmts' = Append(sessStmts, IF createTemp THEN "create_temp" ELSE "utility")
    /\ UNCHANGED <<sessPc, sessCommit>>
    /\ UNCHANGED sessFrame

\* COMMIT: MtmProcessUtility line 494 calls MtmTwoPhaseCommit, which returns
\* false at line 123 for a transaction that commits locally.
SessCommit ==
    /\ sessPc = "in_block"
    /\ sessPc' = "idle"
    /\ sessCommit' = IF RunsLocally(sessTx) THEN "local" ELSE "distributed"
    /\ UNCHANGED <<sessTx, MyXactFlags, sessStmts>>
    /\ UNCHANGED sessFrame

NextSession ==
    \/ ExtensionCreated
    \/ SessBegin
    \/ SessInsert
    \/ SessProcessUtility
    \/ SessCommit

SpecSession == Init /\ [][NextSession]_vars

\* ----------------------------------------------------------- properties

\* The state of transaction x on node n: the origin's prepared transaction, or
\* the copy a peer applied.
TxState(n, x) == IF n = MtmNodeId THEN gxact[x] ELSE peerTx[n][x]

\* The backend is between the capture of its participants and the end of the
\* COMMITTED gather.
InSection(c) ==
    pc[c] \in {"prepare", "gather_prepares", "gather_precommits", "gather_commits"}

Events == {"PREPARE", "PRECOMMIT", "COMMIT", "ABORT"}

\* C1: agreement - no transaction is committed on one node and aborted on
\* another.
C1_Agreement ==
    \A x \in Xids : \A n1 \in Nodes, n2 \in Nodes :
        ~(TxState(n1, x) = "committed" /\ TxState(n2, x) = "aborted")

\* C2: the participant set a coordinator captures is all configured nodes
\* minus the nodes disabled at that instant minus the origin itself.
C2_ParticipantsAtCapture ==
    [][\A c \in Backends :
         (pc[c] = "capture" /\ pc'[c] = "prepare") =>
             /\ loc'[c].participantsMask =
                    {n \in 1..NAllNodes : n \notin disabledNodeMask /\ n # MtmNodeId}
             /\ MtmNodeId \notin loc'[c].participantsMask]_vars

C2_Witness ==
    \E c \in Backends :
        /\ pc[c] = "prepare"
        /\ Cardinality(loc[c].participantsMask) = 1
        /\ disabledNodeMask \cap Nodes # {}

\* C3: the commit returns success only once the COMMITTED gather has ended,
\* and then every captured participant either replied COMMITTED, and holds the
\* transaction committed, or was reported detached while in disabled_mask
\* during that gather.
C3_GatheredAll ==
    \A c \in Backends :
        pc[c] = "unsubscribe" =>
            /\ gxact[MtmTx[c].xid] = "committed"
            /\ \A n \in loc[c].participantsMask :
                \/ n \in loc[c].acked /\ peerTx[n][MtmTx[c].xid] = "committed"
                \/ n \in loc[c].dropped

C3_SuccessStep ==
    \A c \in Backends :
        (outcome'[c] = "committed" /\ outcome[c] # "committed") =>
            pc[c] = "unsubscribe"

C4_FailedInv ==
    \A c \in Backends :
        outcome[c] = "PrepareFailed" =>
            /\ MtmTx[c].xid \notin streams[c]
            /\ gxact[MtmTx[c].xid] = "aborted"

C4_FailedStep ==
    \A c \in Backends :
        /\ ( /\ pc[c] = "gather_prepares"
             /\ loc[c].waitMask = {}
             /\ loc[c].nacked \cup loc[c].dropped # {}
             /\ pc'[c] # "gather_prepares" ) =>
               /\ outcome'[c] = "PrepareFailed"
               /\ gxact'[MtmTx[c].xid] = "aborted"
               /\ MtmTx[c].xid \notin streams'[c]
               /\ pc'[c] = "idle"
        /\ (outcome'[c] = "PrepareFailed" /\ outcome[c] # "PrepareFailed") =>
               /\ pc[c] = "gather_prepares"
               /\ loc[c].waitMask = {}
               /\ loc[c].failed_at \in loc[c].nacked \cup loc[c].dropped

C4_PrepareFailure == []C4_FailedInv /\ [][C4_FailedStep]_vars

C4_Witness ==
    \E c \in Backends :
        /\ outcome[c] = "PrepareFailed"
        /\ gxact[MtmTx[c].xid] = "aborted"
        /\ \E n \in Peers : peerTx[n][MtmTx[c].xid] = "prepared"

C6_NoAbortAfterVote ==
    [][\A x \in votedPrecommitted : \A n \in Nodes :
         TxState(n, x) # "aborted" => TxState(n, x)' # "aborted"]_vars

\* C7: a coordinator that finds the node not online at the capture raises
\* WentOffline before the local PREPARE: nothing of the transaction was
\* prepared or streamed.
C7_OfflineInv ==
    \A c \in Backends :
        outcome[c] = "WentOffline" =>
            /\ pc[c] = "idle"
            /\ gxact[MtmTx[c].xid] = "none"
            /\ \A n \in Nodes :
                /\ peerTx[n][MtmTx[c].xid] = "none"
                /\ \A ev \in Events : <<MtmTx[c].xid, ev>> \notin recvSeen[n]

C7_OfflineStep ==
    \A c \in Backends :
        ( /\ pc[c] = "capture"
          /\ status # "MTM_ONLINE"
          /\ pc'[c] # "capture" ) =>
            /\ outcome'[c] = "WentOffline"
            /\ pc'[c] = "idle"
            /\ gxact' = gxact
            /\ recvSeen' = recvSeen

C7_WentOffline == []C7_OfflineInv /\ [][C7_OfflineStep]_vars

C7_Witness ==
    \E c \in Backends : outcome[c] = "WentOffline" /\ MtmTx[c].xid \in Xids

C9_BarrierExcludes ==
    /\ barrierExcl # 0 => \A c \in Backends : pc[c] # "capture" /\ ~InSection(c)
    /\ \A c \in Backends :
        (pc[c] = "capture" \/ InSection(c)) => barrierShared[c] > 0

C9_Witness ==
    /\ barrierExcl # 0
    /\ \E c \in Backends : pc[c] = "acquire_barrier"

\* C10: a receiver never observes the PRECOMMIT of a transaction whose PREPARE
\* it has not observed.
C10_PrepareBeforePrecommit ==
    \A n \in Peers : \A x \in Xids :
        <<x, "PRECOMMIT">> \in recvSeen[n] => <<x, "PREPARE">> \in recvSeen[n]

C10_Witness ==
    \E n \in windowDone : \E x \in Xids :
        /\ recvActive[n]
        /\ <<x, "PRECOMMIT">> \in recvSeen[n]

\* C11: while stop_new_commits is set no coordinator begins a new commit: no
\* backend takes MtmCommitBarrier in shared mode (line 170) and none captures
\* its participants (lines 172-178) in a state where stop_new_commits is
\* true, however the setting of the gate interleaves with the test of line
\* 167 and the acquisition of line 170.
C11_GateClosed ==
    [][\A c \in Backends :
          (\/ pc[c] = "acquire_barrier" /\ pc'[c] = "capture"
           \/ pc[c] = "capture" /\ pc'[c] = "prepare")
          => ~stop_new_commits]_vars

\* The backend is in one of the gather loops.
InGather(c) == pc[c] \in {"gather_prepares", "gather_precommits", "gather_commits"}

\* C12: gather liveness without timers - once a participant the coordinator
\* waits for is in disabled_mask, the gather loop the coordinator is in
\* terminates and the transaction ends as aborted or committed; the
\* coordinator never waits forever on a peer that is in disabled_mask.
C12_GatherLiveness ==
    \A c \in Backends, x \in Xids :
        (InGather(c) /\ MtmTx[c].xid = x /\ loc[c].waitMask \cap disabledNodeMask # {})
        ~> (~InGather(c) /\ gxact[x] \in {"committed", "aborted"})

\* C13: within the gather window of a commit (from the capture of its
\* participants to the end of its last gather) disabled_mask only grows: no
\* step taken inside the window clears a bit of it, a heartbeat from a
\* previously disabled peer included.
C13_MaskGrowsInWindow ==
    [][\A c \in Backends :
          InSection(c) /\ InSection(c)' => disabledNodeMask \subseteq disabledNodeMask']_vars

StatusMoves ==
    { <<"MTM_INITIALIZATION", "MTM_DISABLED">>,
      <<"MTM_DISABLED", "MTM_RECOVERY">>,
      <<"MTM_RECOVERY", "MTM_RECOVERED">>,
      <<"MTM_RECOVERED", "MTM_ONLINE">>,
      <<"MTM_ONLINE", "MTM_DISABLED">> }

\* C15: the status starts at the head of the chain (INITIALIZATION, or the
\* DISABLED that startup installs) and only moves along the transitions of the
\* membership table; so ONLINE is entered only from RECOVERED and RECOVERY
\* only from DISABLED.
C15_StatusTransitions ==
    /\ status \in {"MTM_INITIALIZATION", "MTM_DISABLED"}
    /\ [][status' # status => <<status, status'>> \in StatusMoves]_vars

\* The node has been online, where it prepared a transaction, was disabled
\* and has recovered again.
C15_Witness ==
    /\ status = "MTM_RECOVERED"
    /\ \E x \in Xids : gxact[x] # "none"

\* Both nodes of the two-node cluster are ONLINE.
BothOnline == \A n \in RefNodes : rStatus[n] = "MTM_ONLINE"

\* A node leaves DISABLED only with the grant or with its peer in reach.
LoserStaysDisabled ==
    \A n \in RefNodes :
        rStatus[n] = "MTM_DISABLED" /\ rStatus'[n] # "MTM_DISABLED"
        => refereeGrant[n] \/ ~rPeerDisabled[n]

\* C16 as stated: in a two-node cluster with a referee at most one node holds
\* the grant, the two nodes are never ONLINE at the same time while the link
\* between them is cut, and the node without the grant stays DISABLED until
\* it can reach its peer again.
C16_OneOnlineWhileCut ==
    /\ [](~(refereeGrant[1] /\ refereeGrant[2]) /\ (~rLink => ~BothOnline))
    /\ [][LoserStaysDisabled]_vars

\* C16, amended: at most one node holds the grant, the two nodes are never
\* ONLINE at the same time once each of them has timed out its peer, and the
\* node without the grant stays DISABLED until it can reach its peer again.
C16_OneOnlineOncePartitionSeen ==
    /\ [](~(refereeGrant[1] /\ refereeGrant[2])
          /\ ((\A n \in RefNodes : rPeerDisabled[n]) => ~BothOnline))
    /\ [][LoserStaysDisabled]_vars

\* The link is cut and both nodes have timed out their peer: the holder of the
\* grant is ONLINE alone and the other node, told who won, is DISABLED.
C16_Witness ==
    /\ ~rLink
    /\ \E n \in RefNodes :
        /\ refereeGrant[n] /\ rStatus[n] = "MTM_ONLINE" /\ rPeerDisabled[n]
        /\ rStatus[PeerOf(n)] = "MTM_DISABLED" /\ rPeerDisabled[PeerOf(n)]
        /\ refereeWinnerId[PeerOf(n)] = n

\* The step is a resolution of x on peer n.
ResolveStep(n, x) ==
    /\ n \in Peers
    /\ ~recvActive[n] /\ ~recvActive'[n]
    /\ peerTx[n][x] \in {"prepared", "precommitted"}
    /\ peerTx'[n][x] # peerTx[n][x]

\* C17: the Resolver decides every orphaned prepared transaction by the
\* decision table - commit if a polled node reports COMMIT, abort if one
\* reports ABORT, commit if all report UNKNOWN and the local state is past
\* PRECOMMIT, abort if all report UNKNOWN and it is only PREPARED - and no
\* poll round sees both a COMMIT and an ABORT report for one transaction.
C17_DecisionTable ==
    /\ [](\A n \in Peers, x \in Xids :
            ~recvActive[n] /\ peerTx[n][x] \in {"prepared", "precommitted"}
            => ~({"COMMIT", "ABORT"} \subseteq PollAnswers(n, x)))
    /\ [][\A n \in Peers, x \in Xids :
            ResolveStep(n, x) =>
                LET answers == PollAnswers(n, x)
                IN /\ "COMMIT" \in answers => peerTx'[n][x] = "committed"
                   /\ "ABORT" \in answers => peerTx'[n][x] = "aborted"
                   /\ answers \subseteq {"UNKNOWN"} /\ peerTx[n][x] = "precommitted"
                        => peerTx'[n][x] = "committed"
                   /\ answers \subseteq {"UNKNOWN"} /\ peerTx[n][x] = "prepared"
                        => peerTx'[n][x] = "aborted"]_vars

CommitCommand(c) == pc[c] = "in_tx" /\ pc'[c] # "in_tx"

\* What a commit left to the host does not touch: DMQ streams, the barrier
\* and the membership lock, the participants, the two-phase state.
LocalFrame(c) ==
    /\ outcome'[c] = "local"
    /\ pc'[c] = "idle"
    /\ UNCHANGED <<streams, barrierVars, loc, gxact, nextXid, MtmTx, membershipVars, peerVars>>

\* C20 as stated: at the commit command the 3PC sequence runs if and only if
\* the transaction is distributed and contains DML; otherwise
\* MtmTwoPhaseCommit leaves everything unchanged and the transaction is
\* committed locally.
C20_ThreePhaseIffDistributedDML ==
    [][\A c \in Backends :
          CommitCommand(c) =>
              IF MtmTx[c].isDistributed /\ MtmTx[c].containsDML
                THEN pc'[c] = "wait_gate"
                ELSE LocalFrame(c)]_vars

\* C20, amended: the 3PC sequence runs if and only if the transaction is
\* distributed, contains DML and the extension has been created; otherwise
\* MtmTwoPhaseCommit subscribes to no stream, takes no barrier, captures no
\* participants, prepares nothing, and the transaction is committed locally.
C20_ThreePhaseIffExtension ==
    [][\A c \in Backends :
          CommitCommand(c) =>
              IF MtmTx[c].isDistributed /\ MtmTx[c].containsDML /\ extension_created
                THEN pc'[c] = "wait_gate" /\ MtmTx'[c].xid \in streams'[c]
                ELSE LocalFrame(c)]_vars

\* A distributed transaction with DML was committed locally, the extension
\* not being created yet.
C20_Witness ==
    \E c \in Backends :
        /\ outcome[c] = "local"
        /\ pc[c] = "idle"
        /\ MtmTx[c].isDistributed /\ MtmTx[c].containsDML
        /\ ~extension_created

\* C21: GIDs are injective in (origin node id, xid) - two calls of
\* MtmGenerateGid with different pairs write different strings - and
\* MtmGidParseNodeId and MtmGidParseXid return for a generated GID exactly the
\* node id and the xid it was generated from.
C21_GidInjective ==
    /\ gidStr # <<>> => (gidArgs[1] # gidArgs[2] => gidStr[1] # gidStr[2])
    /\ gidBack # <<>> => \A i \in 1..2 : gidBack[i] = gidArgs[i]

\* Two pairs whose digits run together the same way were generated and parsed.
C21_Witness ==
    /\ gidBack # <<>>
    /\ gidArgs[1] = <<1, 12>>
    /\ gidArgs[2] = <<11, 2>>
    /\ gidStr[1] # gidStr[2]

\* C22: the timestamps MtmGetIncreasingTimestamp returns are strictly
\* increasing in the order in which the callers take the spinlock, however
\* the callers interleave and whatever the real clock does, and every
\* returned value is the larger of the clock value the call read and the
\* last returned value plus one.
C22_StrictlyIncreasing ==
    /\ [](\A i, j \in 1..Len(tsReturned) : i < j => tsReturned[i] < tsReturned[j])
    /\ [][\A p \in ClockProcs :
            tsPc[p] = "spin" /\ tsPc'[p] = "idle"
            => LET ret == tsReturned'[Len(tsReturned')]
               IN /\ ret >= tsNow[p] /\ ret >= last_timestamp + 1
                  /\ ret = tsNow[p] \/ ret = last_timestamp + 1
                  /\ last_timestamp' = ret]_vars

\* The second call was given the first value plus one, a later call followed
\* the clock forward, and the clock has fallen back below the first value.
C22_Witness ==
    /\ Len(tsReturned) = MaxClockCalls
    /\ realClock < tsReturned[1]
    /\ tsReturned[2] = tsReturned[1] + 1
    /\ tsReturned[MaxClockCalls] > tsReturned[2] + 1

\* C23: of two distributed transactions that wait for each other the
\* detector aborts exactly one, the one with the lowest GID, and the other
\* commits; it never aborts both and never aborts a transaction that is on no
\* cycle of the wait-for graph.
C23_VictimOnCycle ==
    /\ [](dlVictims # DlTxs /\ \A t \in dlVictims : dlState[t] # "committed")
    /\ [][\A t \in DlTxs : t \in dlVictims' \ dlVictims =>
            t \in OnCycle /\ t = DlVictim(OnCycle)]_vars

\* The backend is between the gate of line 167 and the release of line 209.
InCommit(c) ==
    pc[c] \in {"wait_gate", "acquire_barrier", "capture", "prepare",
               "gather_prepares", "gather_precommits", "gather_commits"}

\* C24: progress under load - the cluster never freezes: from every
\* reachable state a commit in progress eventually completes; no coordinator
\* blocks forever on another one, on CommitBarrier or in a gather.
C24_Progress == \A c \in Backends : InCommit(c) ~> ~InCommit(c)

\* GatherPrepares has returned true: MtmTwoPhaseCommit goes on to the
\* precommit of line 200.
PrepareGatherSucceeds(c) == pc[c] = "gather_prepares" /\ pc'[c] = "gather_precommits"

\* C25: whenever the gather of PREPAREs ends with success, the coordinator and
\* the participants that replied PREPARED form a strict majority of all nodes.
C25_MajorityAccepted ==
    [][\A c \in Backends : PrepareGatherSucceeds(c) =>
        2 * (Cardinality(loc[c].acked) + 1) > NAllNodes]_vars

\* C26: the membership lock is never held while the coordinator is blocked
\* in dmq_pop, in a database call or in the acquisition of CommitBarrier, and
\* CommitBarrier is never acquired while the membership lock is held, on
\* every path through MtmTwoPhaseCommit, GatherPrepares and GatherPrecommits.
C26_LockDiscipline ==
    lkPc \in {"acquire_barrier", "prepare", "gather_prepares", "gather_precommits",
              "gather_commits"} => lkMtm = 0

\* The configuration the claim calls invalid.
InvalidConfiguration(g) ==
    \/ g.node_id < 1 \/ g.node_id > MTM_MAX_NODES
    \/ g.MtmMaxNodes < 1
    \/ g.max_prepared_xacts < 1
    \/ g.max_worker_processes < 2 * g.MtmMaxNodes + 1
    \/ g.wal_level # "logical"
    \/ g.max_wal_senders < g.MtmMaxNodes
    \/ g.max_replication_slots < g.MtmMaxNodes

\* C27: node creation refuses an invalid configuration - whenever the node
\* id is outside 1..MTM_MAX_NODES or one of the six requirements of
\* check_config is violated, mtm_after_node_create raises an error and creates
\* no publication, subscription, slot or origin and starts no monitor.
C27_InvalidConfigRefused ==
    cfgCalled /\ InvalidConfiguration(cfgArgs) => cfgRaised /\ cfgCreated = {}

\* A configuration that is short of one worker process, and of nothing else,
\* was refused.
C27_Witness ==
    /\ cfgCalled /\ cfgRaised /\ cfgCreated = {}
    /\ cfgArgs.node_id \in 1..MTM_MAX_NODES
    /\ cfgArgs.max_worker_processes = 2 * cfgArgs.MtmMaxNodes
    /\ cfgArgs.MtmMaxNodes >= 1 /\ cfgArgs.max_prepared_xacts >= 1
    /\ cfgArgs.wal_level = "logical"
    /\ cfgArgs.max_wal_senders >= cfgArgs.MtmMaxNodes
    /\ cfgArgs.max_replication_slots >= cfgArgs.MtmMaxNodes

\* The present keys other than search_path, ordered by the given times.
RECURSIVE KeysInOrder(_, _)
KeysInOrder(keys, stamp) ==
    IF keys = {} THEN <<>>
    ELSE LET k == CHOOSE k \in keys : \A j \in keys : stamp[k] <= stamp[j]
         IN <<k>> \o KeysInOrder(keys \ {k}, stamp)

RemainingKeys == {k \in GucKeys \ {"search_path"} : gucLast[k] # 0}

\* The keys of the emitted SET commands other than the closing search_path.
EmittedKeys == [i \in 1..(Len(gucOut) - 1) |-> gucOut[i].key]

\* C28: after any sequence of SET, SET TO DEFAULT, RESET and RESET ALL,
\* MtmGucSerialize emits one SET per remaining key other than search_path in
\* the order in which the keys were first inserted, also when a present key
\* is SET again.
C28_FirstInsertionOrder ==
    gucOut # <<>> => EmittedKeys = KeysInOrder(RemainingKeys, gucFirst)

\* C28 as amended: ... in the order in which the keys were set last.
C28_LastSetOrder ==
    gucOut # <<>> => EmittedKeys = KeysInOrder(RemainingKeys, gucLast)

\* Two keys were emitted, one of them set again after the other had been
\* inserted.
C28_Witness ==
    /\ Len(gucOut) >= 3
    /\ \E k, j \in RemainingKeys : gucFirst[k] < gucFirst[j] /\ gucLast[j] < gucLast[k]

\* The block contains a statement of the given kind.
SessRan(kind) == \E i \in 1..Len(sessStmts) : sessStmts[i] = kind

\* C29: a transaction that writes to a persistent table and also creates or
\* uses a temporary table is replicated like any other: it still goes through
\* the distributed commit.
C29_TempMixReplicated ==
    /\ extension_created
    /\ sessCommit # "none"
    /\ SessRan("insert_persistent")
    /\ SessRan("insert_temp") \/ SessRan("create_temp")
    => sessCommit = "distributed"

PhaseCodes(c) ==
    IF pc[c] = "gather_prepares" THEN {"MSG_PREPARED", "MSG_ABORTED"} ELSE {AwaitedCode(c)}

C32_BitClearedOnlyByReplyOrDrop ==
    [][\A c \in Backends :
         (InGather(c) /\ pc'[c] = pc[c]) =>
             /\ loc'[c].waitMask \subseteq loc[c].waitMask
             /\ \A n \in loc[c].waitMask \ loc'[c].waitMask :
                 \/ \E x \in streams[c] :
                        /\ replies[n][x] # <<>>
                        /\ replies'[n][x] = Tail(replies[n][x])
                 \/ /\ ~connected[n]
                    /\ n \in disabledNodeMask
                    /\ status = "MTM_ONLINE"]_vars

\* A gather loop has dropped one participant and goes on waiting for another
\* that is detached and not yet in disabled_mask.
C32_Witness ==
    \E c \in Backends, n \in Nodes :
        /\ InGather(c)
        /\ loc[c].dropped # {}
        /\ n \in loc[c].waitMask
        /\ ~connected[n]
        /\ n \notin disabledNodeMask

\* The first three phases of the coordinator in their order: the local
\* PREPARE is done on the way into the PREPARE gather; PRECOMMITTED is set only
\* when that gather has ended with a PREPARED reply of every captured
\* participant; FINISH PREPARED(commit=true) is issued only when the
\* PRECOMMITTED gather has ended with every captured participant having
\* replied or having been dropped as disabled.
PhaseOrder(c) ==
    LET x == MtmTx[c].xid
    IN  /\ pc'[c] = "gather_prepares" /\ pc[c] # "gather_prepares" =>
               pc[c] = "prepare" /\ gxact[x] = "none" /\ gxact'[x] = "prepared"
        /\ x \in Xids /\ gxact'[x] = "precommitted" /\ gxact[x] # "precommitted" =>
               /\ pc[c] = "gather_prepares"
               /\ loc[c].waitMask = {}
               /\ loc[c].acked = loc[c].participantsMask
        /\ x \in Xids /\ gxact'[x] = "committed" /\ gxact[x] # "committed" =>
               /\ pc[c] = "gather_precommits"
               /\ gxact[x] = "precommitted"
               /\ loc[c].waitMask = {}
               /\ loc[c].acked \cup loc[c].dropped = loc[c].participantsMask

\* Backend c gives up a hold of CommitBarrier in this step.
BarrierReleased(c) == barrierShared'[c] < barrierShared[c]

\* Backend c unsubscribes from the stream of its transaction in this step.
Unsubscribed(c) == MtmTx[c].xid \in streams[c] \ streams'[c]

\* The COMMITTED gather of backend c has ended.
CommittedGatherEnded(c) ==
    \/ pc[c] = "gather_commits" /\ loc[c].waitMask = {}
    \/ pc[c] = "unsubscribe"

\* C33 as stated: the phases come in their order, and a coordinator that has
\* entered the gathers releases the barrier and unsubscribes from the stream
\* only after the COMMITTED gather has ended.
C33_PhaseOrderStrict ==
    [][\A c \in Backends :
         /\ PhaseOrder(c)
         /\ InGather(c) /\ (BarrierReleased(c) \/ Unsubscribed(c)) =>
                CommittedGatherEnded(c)]_vars

\* C33: the phases come in their order; the stream is unsubscribed only after
\* the COMMITTED gather has ended or when the PREPARE gather has failed, and
\* the barrier is released only after the COMMITTED gather has ended or by the
\* abort of a transaction in which an error was raised.
C33_PhaseOrder ==
    [][\A c \in Backends :
         /\ PhaseOrder(c)
         /\ Unsubscribed(c) =>
                \/ pc[c] = "unsubscribe"
                \/ pc[c] = "gather_prepares" /\ loc[c].waitMask = {} /\ ~loc[c].prepared
         /\ BarrierReleased(c) =>
                \/ pc[c] = "gather_commits" /\ loc[c].waitMask = {} /\ pc'[c] = "unsubscribe"
                \/ outcome'[c] \in {"WentOffline", "NodeDisabled", "ClusterNotOnline"}]_vars

\* A commit went through the three phases: both peers hold the transaction
\* committed, the barrier is released and the stream unsubscribed.
C33_Witness ==
    \E c \in Backends :
        /\ outcome[c] = "committed"
        /\ gxact[MtmTx[c].xid] = "committed"
        /\ \A n \in Peers : peerTx[n][MtmTx[c].xid] = "committed"
        /\ barrierShared[c] = 0
        /\ streams[c] = {}

\* C34: within one transaction the coordinator never waits for a peer that is
\* not among the captured participants, and a peer it has dropped from the
\* wait set as disabled in one gather is not awaited in the next gather.
C34_WaitSetOnlyShrinks ==
    [][\A c \in Backends :
         (InGather(c) /\ pc'[c] \in {"gather_prepares", "gather_precommits", "gather_commits"}) =>
             /\ loc'[c].participantsMask = loc[c].participantsMask
             /\ loc'[c].waitMask \subseteq loc[c].participantsMask
             /\ loc'[c].waitMask \cap loc[c].dropped = {}]_vars

\* C35: a coordinator inside GatherPrepares or GatherPrecommits was called
\* with a participant mask that is not empty.
C35_MaskNotEmpty ==
    \A c \in Backends : InGather(c) => loc[c].participantsMask # {}

\* C36: a backend whose commit attempt has ended, in whatever way, holds
\* neither CommitBarrier nor the membership lock, so that a walsender waiting
\* for the barrier in exclusive mode is not kept out by a finished attempt.
C36_NoLockAfterCommit ==
    \A c \in Backends : pc[c] = "idle" => barrierShared[c] = 0 /\ mtmLock[c] = 0

\* The state of the local prepared transaction during each gather.
GxactOfPhase(c) ==
    CASE pc[c] = "gather_prepares" -> "prepared"
      [] pc[c] = "gather_precommits" -> "precommitted"
      [] OTHER -> "committed"

\* C37: in a gather loop of a node that is not online, a detached participant
\* found in disabled_mask is never dropped: the coordinator raises the error,
\* and that step issues no FINISH PREPARED, so that the transaction stays
\* prepared (step 5) or precommitted (step 6), consumes no reply and leaves
\* the stream subscribed; the error is raised in no other situation.
C37_ErrorWhenSelfDisabled ==
    [][\A c \in Backends :
         /\ ( /\ InGather(c)
              /\ status # "MTM_ONLINE"
              /\ loc[c].waitMask # {}
              /\ replies' = replies
              /\ loc'[c] # loc[c] ) =>
                  outcome'[c] = "NodeDisabled" /\ pc'[c] = "idle"
         /\ (outcome'[c] = "NodeDisabled" /\ pc[c] # "idle") =>
              /\ InGather(c)
              /\ status # "MTM_ONLINE"
              /\ \E n \in loc[c].waitMask : ~connected[n] /\ n \in disabledNodeMask
              /\ gxact' = gxact
              /\ gxact[MtmTx[c].xid] = GxactOfPhase(c)
              /\ replies' = replies
              /\ streams' = streams]_vars

\* The error was raised in the PRECOMMITTED gather: the commit attempt is over
\* and the transaction is still precommitted on the coordinator.
C37_Witness ==
    \E c \in Backends :
        /\ pc[c] = "idle"
        /\ outcome[c] = "NodeDisabled"
        /\ gxact[MtmTx[c].xid] = "precommitted"

\* C38: MtmAllApplyWorkersFinished returns true only if no pool of another
\* node has an active or a pending task, and false otherwise.
C38_TrueOnlyWhenAllIdle ==
    poolResult # "none" =>
        (poolResult = "true" <=>
            \A n \in Nodes \ {poolArgs.my_node_id} :
                poolArgs.pools[n].active + poolArgs.pools[n].pending = 0)

\* The peers a configuration names: the ids of the rows of mtm.nodes other
\* than the row of this node.
PeersOfRows(rows) == rows \ {MtmNodeId}

\* The peers of the configuration the caller holds.
PeersOfCfg(cfg) == IF cfg.isNull THEN {} ELSE {cfg.nodes[i] : i \in DOMAIN cfg.nodes}

\* C39: a reload calls node_add_cb once for every node that is in the new
\* configuration and not in the old one, node_drop_cb once for every node that
\* is in the old one and not in the new one, and no callback for any other
\* node, this node included; after any sequence of reloads the nodes added and
\* not dropped are the peers of the latest configuration.
C39_ReloadCallbacks ==
    /\ [](\A n \in Nodes :
            rcNet[n] = IF n \in PeersOfCfg(rcCfg) THEN 1 ELSE 0)
    /\ [][mtmNodes' = mtmNodes =>
            /\ PeersOfCfg(rcCfg') = PeersOfRows(mtmNodes)
            /\ \A n \in Nodes :
                /\ rcAdds'[n] =
                     IF n \in PeersOfRows(mtmNodes) \ PeersOfCfg(rcCfg) THEN 1 ELSE 0
                /\ rcDrops'[n] =
                     IF n \in PeersOfCfg(rcCfg) \ PeersOfRows(mtmNodes) THEN 1 ELSE 0]_vars

\* A reload of a configuration that holds the row of this node dropped one
\* peer and added another.
C39_Witness ==
    /\ rcCfg.my_node_id = MtmNodeId
    /\ \E n \in Nodes, m \in Nodes : rcAdds[n] = 1 /\ rcDrops[m] = 1

\* A call of MtmProcessUtility in progress that logged "D".
CapturedInProgress == \E i \in 1..Len(ddlStack) : ddlStack[i].executed

\* C40: "D" is logged only when no captured statement is in progress, so a
\* utility statement run inside a captured one is not logged again; a call
\* that logged "D" logs exactly one "E" when it returns, and a call that did
\* not log "D" logs nothing; the start of a transaction leaves the marker
\* NULL, and in a transaction none of whose statements failed the marker is
\* set only while a captured statement is in progress, whatever failed in
\* earlier transactions.
C40_CaptureNotReentrant ==
    /\ [](ddlXact = "active" /\ ddlFailed = 0 /\ ~CapturedInProgress
            => MtmDDLStatement = "NULL")
    /\ [][/\ (Len(ddlLog') > Len(ddlLog) /\ ddlLog'[Len(ddlLog')] = "D")
                => (MtmDDLStatement = "NULL" /\ ~CapturedInProgress)
          /\ (Len(ddlStack') = Len(ddlStack) + 1
                /\ ddlStack'[Len(ddlStack')].kind = "ddl" /\ ~CapturedInProgress
                /\ ddlFailed = 0)
                => ddlLog' = Append(ddlLog, "D")
          /\ (Len(ddlStack') + 1 = Len(ddlStack) /\ ddlFailed' = ddlFailed)
                => ddlLog' = IF ddlStack[Len(ddlStack)].executed
                             THEN Append(ddlLog, "E") ELSE ddlLog
          /\ (ddlXact = "idle" /\ ddlXact' = "active")
                => MtmDDLStatement' = "NULL"]_vars

\* A statement logged "D" and failed, and a captured statement of a later
\* transaction is in progress with a statement nested in it that was not
\* logged.
C40_Witness ==
    /\ ddlLog = <<"D", "D">>
    /\ ddlXact = "active"
    /\ ddlFailed = 0
    /\ Len(ddlStack) = 2
    /\ ddlStack[1].executed
    /\ ddlStack[2].kind = "ddl"
    /\ ~ddlStack[2].executed

====
